---- MODULE Spec2Model ----
(***************************************************************************)
(* kovaaks-api: the request execution and caching layer.                   *)
(*                                                                         *)
(*   src/src/utils/api.ts    error classification, the two in-flight call  *)
(*                           deduplication maps, the retrying executor     *)
(*   src/src/utils/cache.ts  PersistentCache: TTL store with a disk mirror *)
(*                                                                         *)
(* JavaScript runs the handlers on one event loop: every action below is   *)
(* one run-to-completion step (a call, a callback, a promise reaction).    *)
(* Suspension points (transport in flight, backoff delay, file I/O) are    *)
(* the places where one action ends and another may interleave.            *)
(***************************************************************************)
EXTENDS Integers, Sequences, FiniteSets, TLC

(***************************************************************************)
(* Bounds of the model.                                                    *)
(***************************************************************************)
\* executions (promises) started over both deduplication layers
MaxCalls == 2
\* call arrivals (shared or fresh) over both layers
MaxArrivals == 3
\* executions started in the specification of the retrying executor
MaxRetryCalls == 1

\* JavaScript's undefined for an optional numeric field
Undefined == 0 - 1

(***************************************************************************)
(* Program constants (api.ts).                                             *)
(***************************************************************************)
PENDING_REQUEST_TTL == 30000
PENDING_METHOD_CALL_TTL == 120000

\* KovaaksErrorType (types/index.ts)
NETWORK_ERROR == "network_error"
TIMEOUT == "timeout"
SERVER_ERROR == "server_error"
RATE_LIMITED == "rate_limited"
AUTHENTICATION_ERROR == "authentication_error"
AUTHORIZATION_ERROR == "authorization_error"
VALIDATION_ERROR == "validation_error"
NOT_FOUND == "not_found"
UNKNOWN_ERROR == "unknown_error"

DEFAULT_RETRY_CONFIG ==
  [maxRetries |-> 3, retryableStatusCodes |-> {408, 429, 500, 502, 503, 504}]

(***************************************************************************)
(* Messages.  A message is a string or absent; String.includes is modelled *)
(* by the table of the messages the model uses.                            *)
(***************************************************************************)
NoMessage == "<undefined>"
MSG_NO_RESPONSE == "No response received from server - the request may have timed out"
MSG_RESPONSE == "An error occurred while processing your request"
MSG_SETUP == "Error setting up request"
MSG_AXIOS_TIMEOUT == "timeout of 60000ms exceeded"
MSG_NETWORK == "Network Error"
MSG_BAD_RESPONSE == "Request failed with status code"

Messages ==
  {NoMessage, "", MSG_NO_RESPONSE, MSG_RESPONSE, MSG_SETUP, MSG_AXIOS_TIMEOUT,
   MSG_NETWORK, MSG_BAD_RESPONSE}

\* message.includes('timeout')
IncludesTimeout(m) == m \in {MSG_AXIOS_TIMEOUT}
\* message.includes('timed out')
IncludesTimedOut(m) == m \in {MSG_NO_RESPONSE}
\* JavaScript truthiness of error.message
MessageTruthy(m) == m \notin {NoMessage, ""}

NoCode == "<undefined>"
Codes == {NoCode, "ECONNABORTED", "ERR_NETWORK", "ERR_BAD_RESPONSE"}

(***************************************************************************)
(* categorizeError (api.ts 159-204), on an outcome                         *)
(* [status, message, code]; status Undefined when the field is absent.     *)
(***************************************************************************)
categorizeError_NoSwitch(error) ==
  IF error.status = Undefined \/ error.status = 0
  THEN IF MessageTruthy(error.message)
          /\ (IncludesTimeout(error.message) \/ IncludesTimedOut(error.message))
       THEN TIMEOUT
       ELSE NETWORK_ERROR
  ELSE IF error.status >= 500 THEN SERVER_ERROR
  ELSE IF error.code = "ECONNABORTED" THEN TIMEOUT
  ELSE UNKNOWN_ERROR

categorizeError(error) ==
  IF error.status = Undefined \/ error.status = 0
  THEN IF MessageTruthy(error.message)
          /\ (IncludesTimeout(error.message) \/ IncludesTimedOut(error.message))
       THEN TIMEOUT
       ELSE NETWORK_ERROR
  ELSE IF error.status >= 400 /\ error.status < 500
          /\ error.status \in {401, 403, 404, 422, 429}
       THEN CASE error.status = 401 -> AUTHENTICATION_ERROR
              [] error.status = 403 -> AUTHORIZATION_ERROR
              [] error.status = 404 -> NOT_FOUND
              [] error.status = 422 -> VALIDATION_ERROR
              [] error.status = 429 -> RATE_LIMITED
  ELSE IF error.status >= 500 THEN SERVER_ERROR
  ELSE IF error.code = "ECONNABORTED" THEN TIMEOUT
  ELSE UNKNOWN_ERROR

\* the kinds formatDetailedError lists as retryable (api.ts 236-241)
RetryableKinds == {TIMEOUT, NETWORK_ERROR, SERVER_ERROR, RATE_LIMITED}

RetryableUnset == "unset"
BoolStr(b) == IF b THEN "true" ELSE "false"

NoType == "<undefined>"
NoData == "<undefined>"
INVALID_ROUTE == "Invalid Route"

(***************************************************************************)
(* formatDetailedError (api.ts 209-245).  retryAttempts = Undefined when   *)
(* the argument is not passed; retryable is then left unset.  The result   *)
(* carries no code field of its own (the raw error is kept apart, as       *)
(* originalError).                                                         *)
(***************************************************************************)
formatDetailedError(error, retryAttempts) ==
  LET errorType == categorizeError(error) IN
  [type |-> errorType,
   status |-> error.status,
   data |-> error.data,
   message |-> IF MessageTruthy(error.message) THEN error.message
               ELSE "Unknown error occurred",
   code |-> NoCode,
   retryAttempts |-> retryAttempts,
   retryable |-> IF retryAttempts # Undefined
                 THEN BoolStr(errorType \in RetryableKinds)
                 ELSE RetryableUnset]

\* an error value before any classification: what a transport without the
\* response interceptor throws (an AxiosError keeps the HTTP status under
\* error.response, so error.status is undefined)
RawError(message, code) ==
  [type |-> NoType, status |-> Undefined, data |-> NoData, message |-> message,
   code |-> code, retryAttempts |-> Undefined, retryable |-> RetryableUnset]

NoError == RawError(NoMessage, NoCode)

(***************************************************************************)
(* The transport.  One attempt of client.request ends in one outcome:      *)
(*   ok        a 2xx response carrying data                                *)
(*   response  a non-2xx response (status, body)                           *)
(*   request   the request was sent and no response came (the timeout      *)
(*             fired, or the connection failed)                            *)
(*   setup     the request could not be set up                             *)
(***************************************************************************)
ResponseData == {"d1", "d2"}
ErrorStatuses == {401, 404, 408, 422, 503}

TransportOutcomes ==
  [kind : {"ok"}, status : {200}, data : ResponseData]
  \cup [kind : {"response"}, status : ErrorStatuses, data : {"body"}]
  \cup [kind : {"response"}, status : {404}, data : {INVALID_ROUTE}]
  \cup [kind : {"request", "setup"}, status : {Undefined}, data : {NoData}]

(***************************************************************************)
(* The response interceptor's error handler (api.ts 265-315): what         *)
(* client.request rejects with for a failed outcome o, on a client made    *)
(* by createApiClient.                                                     *)
(***************************************************************************)
InterceptedError(o) ==
  CASE o.kind = "response" ->
         formatDetailedError(
           [status |-> o.status, data |-> o.data, message |-> MSG_RESPONSE,
            code |-> NoCode], Undefined)
    [] o.kind = "request" ->
         formatDetailedError(
           [status |-> 0, data |-> NoData, message |-> MSG_NO_RESPONSE,
            code |-> NoCode], Undefined)
    [] OTHER ->
         formatDetailedError(
           [status |-> Undefined, data |-> NoData, message |-> MSG_SETUP,
            code |-> NoCode], Undefined)

\* what a bare axios instance (no interceptor) rejects with
BareError(o) ==
  IF o.kind = "request" THEN RawError(MSG_AXIOS_TIMEOUT, "ECONNABORTED")
  ELSE IF o.kind = "response" THEN RawError(MSG_BAD_RESPONSE, "ERR_BAD_RESPONSE")
  ELSE RawError(MSG_NETWORK, "ERR_NETWORK")

Clients == {"api", "bare"}

ThrownError(client, o) ==
  IF client = "api" THEN InterceptedError(o) ELSE BareError(o)

(***************************************************************************)
(* Requests and their deduplication keys.                                  *)
(***************************************************************************)
URL_SCENARIO == "/webapp-backend/scenario"
URL_PROFILE == "/webapp-backend/user/profile"

Requests == [method : {"GET"}, url : {URL_SCENARIO, URL_PROFILE}]

\* url.includes('/webapp-backend/scenario')
IncludesScenarioRoute(url) == url \in {URL_SCENARIO}

\* createRequestCacheKey (api.ts 134-141); params and data are {} here
createRequestCacheKey(req) == <<req.method, req.url, "{}", "{}">>

RequestKeys == {createRequestCacheKey(r) : r \in Requests}

(***************************************************************************)
(* Retry policy.  config.retry is undefined, false or a partial            *)
(* RetryConfig spread over the defaults (api.ts 384-388).                  *)
(***************************************************************************)
CUSTOM_CODES == {401, 404, 503}

RetryOptions ==
  {[kind |-> "undefined", maxRetries |-> Undefined, codes |-> {}],
   [kind |-> "false", maxRetries |-> Undefined, codes |-> {}],
   [kind |-> "object", maxRetries |-> 1, codes |-> CUSTOM_CODES]}

RetryDisabled == [disabled |-> TRUE, maxRetries |-> 0, retryableStatusCodes |-> {}]

MergeRetryConfig(opt) ==
  IF opt.kind = "false" THEN RetryDisabled
  ELSE IF opt.kind = "object"
  THEN [disabled |-> FALSE,
        maxRetries |-> IF opt.maxRetries # Undefined THEN opt.maxRetries
                       ELSE DEFAULT_RETRY_CONFIG.maxRetries,
        retryableStatusCodes |-> IF opt.codes # {} THEN opt.codes
                                 ELSE DEFAULT_RETRY_CONFIG.retryableStatusCodes]
  ELSE [disabled |-> FALSE,
        maxRetries |-> DEFAULT_RETRY_CONFIG.maxRetries,
        retryableStatusCodes |-> DEFAULT_RETRY_CONFIG.retryableStatusCodes]

\* error.status || 0
StatusOrZero(error) == IF error.status = Undefined THEN 0 ELSE error.status

\* mutant: the branch looks at the error data only, not at the URL
IsMissingScenario_DataOnly(error, url) ==
  /\ error.type = NOT_FOUND
  /\ error.data = INVALID_ROUTE

\* the 404 branch of executeRequest (api.ts 423-426)
IsMissingScenario(error, url) ==
  /\ error.type = NOT_FOUND
  /\ (error.data = INVALID_ROUTE \/ IncludesScenarioRoute(url))

\* mutant: the retry budget test is off by one (> for >=)
ShouldThrow_OffByOne(retryConfig, retryAttempt, error) ==
  \/ retryConfig.disabled
  \/ retryAttempt > retryConfig.maxRetries
  \/ StatusOrZero(error) \notin retryConfig.retryableStatusCodes

\* the condition under which executeRequest throws (api.ts 432-436)
ShouldThrow(retryConfig, retryAttempt, error) ==
  \/ retryConfig.disabled
  \/ retryAttempt >= retryConfig.maxRetries
  \/ StatusOrZero(error) \notin retryConfig.retryableStatusCodes

\* the error executeRequest throws (api.ts 438-452)
FinalError(error, retryAttempt) ==
  IF error.type # NoType
  THEN [error EXCEPT !.retryAttempts = retryAttempt]
  ELSE formatDetailedError(error, retryAttempt)

(***************************************************************************)
(* Wrappers made by deduplicateRequests(fn, options) (api.ts 68-113).      *)
(* ttl = 0 stands for an absent options.ttl; no keyGenerator is given.     *)
(***************************************************************************)
Wrappers == {[fn |-> "f", name |-> "fetch", ttl |-> 0]}
\* a second function with the same fn.name, wrapped as well
SameNameWrappers == Wrappers \cup {[fn |-> "g", name |-> "fetch", ttl |-> 0]}
MethodArgs == {"a1"}

\* `${fn.name}:${JSON.stringify(args)}`
MethodKey(w, args) == <<w.name, args>>
MethodKeys == {MethodKey(w, a) : w \in Wrappers, a \in MethodArgs}

\* options.ttl || PENDING_METHOD_CALL_TTL
WrapperTtl(w) == IF w.ttl # 0 THEN w.ttl ELSE PENDING_METHOD_CALL_TTL

(***************************************************************************)
(* State of the request layer.                                             *)
(*   now                 Date.now()                                        *)
(*   pendingRequests     the raw-request map: key -> PendingRequest        *)
(*   pendingMethodCalls  the method-call map: key -> PendingMethodCall     *)
(*   promises            the promises made so far, by identity 1..nextId:  *)
(*                       requestPromise of makeAuthenticatedRequest with   *)
(*                       the position of its executeRequest, or the        *)
(*                       promise a wrapped fn returned                     *)
(*   lastCall            the latest call arrival and the promise it got    *)
(*                       (fn: the function whose wrapper was called)       *)
(*                       (dedup: it was made without skipDeduplication)    *)
(*   arrivals            number of call arrivals                           *)
(***************************************************************************)
VARIABLES now, pendingRequests, pendingMethodCalls, promises, nextId, lastCall,
          arrivals

reqVars == <<pendingRequests, pendingMethodCalls, promises, nextId, lastCall, arrivals>>

(***************************************************************************)
(* State of the error classifier's harness: an outcome handed to           *)
(* categorizeError and the kind it returned ("" before the call).          *)
(***************************************************************************)
VARIABLES outcome, kind

fnVars == <<outcome, kind>>

(***************************************************************************)
(* State of a PersistentCache (cache.ts) and of its cache file.            *)
(*   setCalls    the number of calls of set so far                         *)
(*   cache       this.cache: key -> CacheEntry                             *)
(*   enabled     this._enableCaching                                       *)
(*   autoSave    this.autoSaveInterval is set (the timer is active)        *)
(*   file        the file at this.cacheFile                                *)
(*   loads       loadFromDisk calls suspended in await readFile            *)
(*   io          file operations of saveToDisk() in flight (await unlink,  *)
(*               await writeFile)                                          *)
(*   lastGet     the call of get, has or saveToDisk that has just returned *)
(*               and what get or has returned                              *)
(*   written     history: per key the entry of the latest set not followed *)
(*               by a delete or clear of that key                          *)
(*   forgotten   history: the keys held when caching was switched off, not *)
(*               set since                                                 *)
(*   saveState   history: "done" while the file is what the latest         *)
(*               saveToDisk of the unchanged store wrote                   *)
(*   freshCache, freshLoad   a second store constructed on the same file:  *)
(*               its map and the position of its initial loadFromDisk      *)
(***************************************************************************)
VARIABLES setCalls, cache, enabled, autoSave, file, loads, io, lastGet, written, forgotten,
          saveState, freshCache, freshLoad

cacheVars == <<setCalls, cache, enabled, autoSave, file, loads, io, lastGet, written,
               forgotten, saveState, freshCache, freshLoad>>

(***************************************************************************)
(* State around the store: its timers, its process, and the endpoint       *)
(* methods that go through it (ScenarioAPI.getTrendingScenarios).          *)
(*   timers      the interval timers the store has started and not cleared *)
(*   interval    the autoSaveInterval configured last (constructor or      *)
(*               updateConfig)                                             *)
(*   disposed    dispose() has been called                                 *)
(*   process     "running", or "exited" once the process has terminated    *)
(*   endpoint    pending: the cache keys whose endpoint call awaits the    *)
(*               transport; sent: the transport calls made so far          *)
(***************************************************************************)
VARIABLES timers, interval, disposed, process, endpoint

procVars == <<timers, interval, disposed, process, endpoint>>

(***************************************************************************)
(* State of the helpers of utils/api.ts and of the store's paths.          *)
(*   batch      a run of batchApiCalls, or of a helper with the same loop: *)
(*              its options, the loop index i, the calls it has started    *)
(*              and those that have settled, the state of the cancel       *)
(*              signal, and where the run stands                           *)
(*   delayCall  a call of calculateRetryDelay: its arguments, the value of *)
(*              Math.random() and the delay returned                       *)
(*   paths      this.cacheDir and this.cacheFile of the store, and the     *)
(*              options they were configured from                          *)
(***************************************************************************)
VARIABLES batch, delayCall, paths

auxVars == <<batch, delayCall, paths>>

nonReqVars == <<fnVars, cacheVars, procVars, auxVars>>

\* an absent map entry (promise identities start at 1)
NoRecord == [promise |-> 0, timestamp |-> 0, expiresAt |-> 0]

NoKey == <<>>

NoPromise ==
  [layer |-> "none", key |-> NoKey, url |-> "", client |-> "",
   retryConfig |-> RetryDisabled, state |-> "none", phase |-> "none",
   retryAttempt |-> 0, attempts |-> 0, firstStatus |-> Undefined,
   value |-> "", error |-> NoError]

PromiseIds == 1..MaxCalls

NoCall == [layer |-> "none", key |-> NoKey, promise |-> 0, fresh |-> FALSE,
           dedup |-> FALSE, fn |-> "none"]

\* no run of batchApiCalls and no call of calculateRetryDelay so far
NoBatch ==
  [fn |-> "none", n |-> 0, concurrency |-> 0, i |-> 0, phase |-> "idle",
   started |-> {}, settled |-> {}, rejected |-> {}, hasSignal |-> FALSE,
   aborted |-> FALSE]
NoDelayCall ==
  [attempt |-> Undefined, policy |-> "", random |-> Undefined, result |-> Undefined]

ReqInit ==
  /\ pendingRequests = [k \in RequestKeys |-> NoRecord]
  /\ pendingMethodCalls = [k \in MethodKeys |-> NoRecord]
  /\ promises = [p \in PromiseIds |-> NoPromise]
  /\ nextId = 0
  /\ lastCall = NoCall
  /\ arrivals = 0
  /\ batch = NoBatch
  /\ delayCall = NoDelayCall

(***************************************************************************)
(* cleanupPendingRequests (api.ts 146-154) and cleanupPendingMethodCalls   *)
(* (api.ts 118-126): the map without the records with now > expiresAt.     *)
(***************************************************************************)
\* mutant: the sweep removes nothing
SweepExpired_Nothing(map, t) == map

SweepExpired(map, t) ==
  [k \in DOMAIN map |->
     IF map[k].promise # 0 /\ t > map[k].expiresAt THEN NoRecord ELSE map[k]]

cleanupPendingRequests(map, t) == SweepExpired(map, t)

cleanupPendingMethodCalls(map, t) == SweepExpired(map, t)

\* the lookup of makeAuthenticatedRequest (api.ts 404-408), after the sweep
RequestIsShared(map, key) == map[key].promise # 0

\* mutant: the lookup of the wrapper ignores expiresAt
MethodCallIsShared_NoTtl(map, key, t) == map[key].promise # 0

\* the lookup of the wrapper (api.ts 85-86)
MethodCallIsShared(map, key, t) ==
  map[key].promise # 0 /\ t < map[key].expiresAt

\* mutant: the cleanup is attached with then(), so it is skipped on rejection
\* (here: it never removes the record)
FinallyCleanup_Never(map, key, p) == map

\* mutant: the cleanup deletes whatever record is stored under the key
FinallyCleanup_AnyRecord(map, key, p) == [map EXCEPT ![key] = NoRecord]

\* the finally callback of both layers (api.ts 102-107, 482-488)
FinallyCleanup(map, key, p) ==
  IF map[key].promise # 0 /\ map[key].promise = p
  THEN [map EXCEPT ![key] = NoRecord]
  ELSE map

(***************************************************************************)
(* makeAuthenticatedRequest (api.ts 372-492), up to its return: the sweep, *)
(* the lookup, and otherwise executeRequest() up to its first await (the   *)
(* transport is invoked) and the registration of the pending record.       *)
(***************************************************************************)
MakeAuthenticatedRequest(client, req, opt, skipDeduplication) ==
  LET cacheKey == createRequestCacheKey(req)
      swept == IF skipDeduplication THEN pendingRequests
               ELSE cleanupPendingRequests(pendingRequests, now)
  IN
  /\ arrivals < MaxArrivals
  /\ arrivals' = arrivals + 1
  /\ IF ~skipDeduplication /\ RequestIsShared(swept, cacheKey)
     THEN /\ pendingRequests' = swept
          /\ lastCall' = [layer |-> "raw", key |-> cacheKey,
                          promise |-> swept[cacheKey].promise, fresh |-> FALSE,
                          dedup |-> TRUE, fn |-> "none"]
          /\ UNCHANGED <<promises, nextId>>
     ELSE /\ nextId < MaxCalls
          /\ nextId' = nextId + 1
          /\ promises' = [promises EXCEPT ![nextId + 1] =
               [NoPromise EXCEPT !.layer = "raw", !.key = cacheKey,
                  !.url = req.url, !.client = client,
                  !.retryConfig = MergeRetryConfig(opt),
                  !.state = "pending", !.phase = "request",
                  !.retryAttempt = 0, !.attempts = 1]]
          /\ pendingRequests' =
               IF skipDeduplication THEN pendingRequests
               ELSE [swept EXCEPT ![cacheKey] =
                       [promise |-> nextId + 1, timestamp |-> now,
                        expiresAt |-> now + PENDING_REQUEST_TTL]]
          /\ lastCall' = [layer |-> "raw", key |-> cacheKey,
                          promise |-> nextId + 1, fresh |-> TRUE,
                          dedup |-> ~skipDeduplication, fn |-> "none"]
  /\ UNCHANGED <<now, pendingMethodCalls>>
  /\ UNCHANGED nonReqVars

(***************************************************************************)
(* executeRequest (api.ts 412-468) from the point where the transport      *)
(* call of promise p settles with outcome o: return the data, or the catch *)
(* block up to a return, a throw or the await of the backoff delay.  When  *)
(* requestPromise settles its finally callback is the first reaction to    *)
(* run (it was registered before the promise was handed out), so the       *)
(* cleanup belongs to the same step.  A call with skipDeduplication has no *)
(* finally callback and no record of its own: the cleanup changes nothing. *)
(***************************************************************************)
TransportSettles(p, o) ==
  LET pr == promises[p]
      error == ThrownError(pr.client, o)
      first == IF pr.firstStatus = Undefined /\ pr.attempts = 1
               THEN StatusOrZero(error) ELSE pr.firstStatus
  IN
  /\ pr.layer = "raw" /\ pr.state = "pending" /\ pr.phase = "request"
  /\ IF o.kind = "ok"
     THEN /\ promises' = [promises EXCEPT ![p] =
                [pr EXCEPT !.state = "resolved", !.phase = "done", !.value = o.data]]
          /\ pendingRequests' = FinallyCleanup(pendingRequests, pr.key, p)
     ELSE IF IsMissingScenario(error, pr.url)
     THEN /\ promises' = [promises EXCEPT ![p] =
                [pr EXCEPT !.state = "resolved", !.phase = "done", !.value = "null",
                           !.error = error, !.firstStatus = first]]
          /\ pendingRequests' = FinallyCleanup(pendingRequests, pr.key, p)
     ELSE IF ShouldThrow(pr.retryConfig, pr.retryAttempt, error)
     THEN /\ promises' = [promises EXCEPT ![p] =
                [pr EXCEPT !.state = "rejected", !.phase = "done",
                           !.error = FinalError(error, pr.retryAttempt),
                           !.firstStatus = first]]
          /\ pendingRequests' = FinallyCleanup(pendingRequests, pr.key, p)
     ELSE /\ promises' = [promises EXCEPT ![p] =
                [pr EXCEPT !.phase = "delay", !.error = error, !.firstStatus = first]]
          /\ UNCHANGED pendingRequests
  /\ UNCHANGED <<now, pendingMethodCalls, nextId, lastCall, arrivals>>
  /\ UNCHANGED nonReqVars

\* the backoff delay of promise p is over: executeRequest(retryAttempt + 1)
\* invokes the transport again (api.ts 463-466, 414)
RetryFires(p) ==
  LET pr == promises[p] IN
  /\ pr.layer = "raw" /\ pr.state = "pending" /\ pr.phase = "delay"
  /\ promises' = [promises EXCEPT ![p] =
        [pr EXCEPT !.phase = "request", !.retryAttempt = pr.retryAttempt + 1,
                   !.attempts = pr.attempts + 1]]
  /\ UNCHANGED <<now, pendingRequests, pendingMethodCalls, nextId, lastCall, arrivals>>
  /\ UNCHANGED nonReqVars

(***************************************************************************)
(* The wrapper made by deduplicateRequests (api.ts 78-110), called with    *)
(* args: the lookup, and otherwise fn(...args), the registration and the   *)
(* finally callback.                                                       *)
(***************************************************************************)
WrappedCall(w, args) ==
  LET cacheKey == MethodKey(w, args) IN
  /\ arrivals < MaxArrivals
  /\ arrivals' = arrivals + 1
  /\ IF MethodCallIsShared(pendingMethodCalls, cacheKey, now)
     THEN /\ lastCall' = [layer |-> "method", key |-> cacheKey,
                          promise |-> pendingMethodCalls[cacheKey].promise,
                          fresh |-> FALSE, dedup |-> TRUE, fn |-> w.fn]
          /\ UNCHANGED <<promises, nextId, pendingMethodCalls>>
     ELSE /\ nextId < MaxCalls
          /\ nextId' = nextId + 1
          /\ promises' = [promises EXCEPT ![nextId + 1] =
               [NoPromise EXCEPT !.layer = "method", !.key = cacheKey,
                  !.client = w.fn, !.state = "pending", !.phase = "request"]]
          /\ pendingMethodCalls' = [pendingMethodCalls EXCEPT ![cacheKey] =
               [promise |-> nextId + 1, timestamp |-> now,
                expiresAt |-> now + WrapperTtl(w)]]
          /\ lastCall' = [layer |-> "method", key |-> cacheKey,
                          promise |-> nextId + 1, fresh |-> TRUE, dedup |-> TRUE,
                          fn |-> w.fn]
  /\ UNCHANGED <<now, pendingRequests>>
  /\ UNCHANGED nonReqVars

\* the promise fn returned settles (with a value or an error of fn's own);
\* its finally callback runs (api.ts 102-107)
ProducerOutcomes == [state : {"resolved"}, value : ResponseData]
                    \cup [state : {"rejected"}, value : {"fn error"}]

ProducerSettles(p, o) ==
  LET pr == promises[p] IN
  /\ pr.layer = "method" /\ pr.state = "pending"
  /\ promises' = [promises EXCEPT ![p] =
        [pr EXCEPT !.state = o.state, !.phase = "done", !.value = o.value]]
  /\ pendingMethodCalls' = FinallyCleanup(pendingMethodCalls, pr.key, p)
  /\ UNCHANGED <<now, pendingRequests, nextId, lastCall, arrivals>>
  /\ UNCHANGED nonReqVars

\* setInterval(cleanupPendingMethodCalls, 60000) (api.ts 129)
MethodCleanupTimer ==
  /\ pendingMethodCalls' = cleanupPendingMethodCalls(pendingMethodCalls, now)
  /\ UNCHANGED <<now, pendingRequests, promises, nextId, lastCall, arrivals>>
  /\ UNCHANGED nonReqVars

\* setInterval(cleanupPendingRequests, 60000) of createApiClient (api.ts 319)
RequestCleanupTimer ==
  /\ pendingRequests' = cleanupPendingRequests(pendingRequests, now)
  /\ UNCHANGED <<now, pendingMethodCalls, promises, nextId, lastCall, arrivals>>
  /\ UNCHANGED nonReqVars

(***************************************************************************)
(* The clock.  Time passes between steps; the model moves it to the        *)
(* instants around the expiry of a pending record: one millisecond before, *)
(* the instant itself, one millisecond after.                              *)
(***************************************************************************)
RecordExpiries ==
  {pendingRequests[k].expiresAt : k \in {x \in RequestKeys : pendingRequests[x].promise # 0}}
  \cup {pendingMethodCalls[k].expiresAt :
          k \in {x \in MethodKeys : pendingMethodCalls[x].promise # 0}}

ReqTick ==
  /\ \E e \in RecordExpiries : \E t \in {e - 1, e, e + 1} : t > now /\ now' = t
  /\ UNCHANGED reqVars
  /\ UNCHANGED nonReqVars

DedupNext ==
  \/ \E r \in Requests, opt \in {o \in RetryOptions : o.kind = "object"},
        skip \in BOOLEAN :
       MakeAuthenticatedRequest("api", r, opt, skip)
  \/ \E p \in PromiseIds, o \in {x \in TransportOutcomes : x.status \in {200, 404, 503}} :
       TransportSettles(p, o)
  \/ \E p \in PromiseIds : RetryFires(p)
  \/ \E w \in Wrappers, a \in MethodArgs : WrappedCall(w, a)
  \/ \E p \in PromiseIds, o \in ProducerOutcomes : ProducerSettles(p, o)
  \/ MethodCleanupTimer
  \/ RequestCleanupTimer
  \/ ReqTick

\* the request layer with the wrappers of two functions of one name
SameNameNext ==
  \/ \E w \in SameNameWrappers, a \in MethodArgs : WrappedCall(w, a)
  \/ \E p \in PromiseIds, o \in ProducerOutcomes : ProducerSettles(p, o)
  \/ MethodCleanupTimer
  \/ ReqTick

RetryNext ==
  \/ \E c \in Clients, r \in Requests, opt \in RetryOptions, skip \in BOOLEAN :
       nextId < MaxRetryCalls /\ MakeAuthenticatedRequest(c, r, opt, skip)
  \/ \E p \in PromiseIds, o \in TransportOutcomes : TransportSettles(p, o)
  \/ \E p \in PromiseIds : RetryFires(p)
  \/ RequestCleanupTimer
  \/ ReqTick

(***************************************************************************)
(* The classifier applied to one outcome.                                  *)
(***************************************************************************)
ClassifiedStatuses ==
  {Undefined, 0, 200, 302, 399, 400, 401, 403, 404, 408, 418, 422, 429, 499,
   500, 503, 599}

Outcomes ==
  {[status |-> s, message |-> m, code |-> c] :
     s \in ClassifiedStatuses, m \in Messages, c \in Codes}

NoOutcome == [status |-> Undefined, message |-> NoMessage, code |-> NoCode]
NotClassified == ""

FnIdle == outcome = NoOutcome /\ kind = NotClassified

(***************************************************************************)
(* PersistentCache (cache.ts).  Keys, values and ttl arguments of the      *)
(* calls; Undefined stands for an omitted ttl argument.                    *)
(***************************************************************************)
CacheKeys == {"k1", "k2"}
NULL == "null"
CacheValues == {"v1"}
\* the data of the entries an earlier run left in the file
OLD_VALUE == "v0"
\* the explicit ttl argument of set, in ms
ShortTtl == 1
TtlArgs == {ShortTtl, Undefined}
\* set takes any number as ttl (227): also a ttl of 0 ms
AnyTtlArgs == TtlArgs \cup {0}
\* Date.now() when the store is constructed, and the ms that pass after it
StartTime == 2
MaxTicks == 2
MaxNow == StartTime + MaxTicks
\* file operations of saveToDisk() in flight at a time
MaxIo == 1
\* calls of set in one run
MaxSets == 2
\* calls of loadFromDisk suspended at a time
MaxLoads == 1
\* the retry attempts calculateRetryDelay is called for
MaxAttempt == 6
\* the calls handed to batchApiCalls, and its concurrency option
MaxBatchCalls == 3
MaxConcurrency == 2
\* the autoSaveInterval of a store constructed without the option (55)
DEFAULT_AUTO_SAVE == 5 * 60 * 1000
\* the autoSaveInterval options a store is configured with, in ms
IntervalArgs == {0, DEFAULT_AUTO_SAVE}
\* the events that end the process, and those the store listens to (101-113)
EndEvents == {"exit", "SIGINT", "SIGTERM"}
HandledEvents_ExitOnly == {"exit"}
HandledEvents == {"exit", "SIGINT"}
\* transport calls of the endpoint methods in one run
MaxTransport == 3
\* CACHE_TTL.TRENDING_SCENARIOS (part_001 17)
TRENDING_SCENARIOS == 6 * 60 * 60 * 1000

\* this.defaultTTL of the apiCache singleton (cache.ts 44, 497)
defaultTTL == 5 * 60 * 1000

NoEntry == [present |-> FALSE, data |-> NULL, timestamp |-> 0, expiresAt |-> 0]
Entry(d, ts, exp) == [present |-> TRUE, data |-> d, timestamp |-> ts, expiresAt |-> exp]
EmptyMap == [k \in CacheKeys |-> NoEntry]
Size(m) == Cardinality({k \in CacheKeys : m[k].present})

(***************************************************************************)
(* The cache file: absent, unparsable, or the JSON object written by       *)
(* saveToDisk.  JSON.stringify followed by JSON.parse gives back the       *)
(* fields data, timestamp and expiresAt of every entry (JSON data and      *)
(* finite numbers), so the file's content is kept as a map of entries.     *)
(***************************************************************************)
AbsentFile == [state |-> "absent", entries |-> EmptyMap]
GarbageFile == [state |-> "garbage", entries |-> EmptyMap]
JsonFile(m) == [state |-> "json", entries |-> m]
FileExists(f) == f.state # "absent"

\* files an earlier run of the program can have left behind
InitialFiles ==
  {AbsentFile, GarbageFile,
   JsonFile([EmptyMap EXCEPT !["k1"] = Entry(OLD_VALUE, 0, StartTime + 1)]),
   JsonFile([EmptyMap EXCEPT !["k1"] = Entry(OLD_VALUE, 0, StartTime + 1),
                             !["k2"] = Entry(OLD_VALUE, 0, 1)])}

NoGet == [op |-> "none", key |-> "", result |-> ""]
\* a call of op that returns nothing
Returned(op) == [op |-> op, key |-> "", result |-> ""]

\* the file operations that the store runs inside a try block: mkdirSync
\* (76-83, 159-166), unlink (328-337), writeFile (340-363), readFile and
\* JSON.parse (372-399)
TrySites == {"mkdir", "unlink", "write", "read"}

\* mutant: a failing file operation is not caught
CallResult_Uncaught(site, failed) == IF failed THEN "thrown" ELSE "ok"

\* how the call around a file operation ends: the failure of an operation in
\* a try block is caught and logged
CallResult(site, failed) ==
  IF ~failed THEN "ok"
  ELSE IF site \in TrySites THEN "caught"
  ELSE "thrown"

\* the expiry tests of get (210), has (280) and purgeExpired (305)
GetExpired(entry, t) == t > entry.expiresAt
HasExpired(entry, t) == t > entry.expiresAt
PurgeTest(entry, t) == t > entry.expiresAt

\* saveToDisk keeps the entries with Date.now() <= expiresAt (347)
SaveKeeps_Strict(entry, t) == t < entry.expiresAt
SaveKeeps(entry, t) == t <= entry.expiresAt

\* loadFromDisk takes over the entries with now <= expiresAt (383)
LoadKeeps(entry, t) == t <= entry.expiresAt

\* set (227-243): the entry stored for data and ttl at time t
SetEntry(data, ttl, t) ==
  Entry(data, t, t + (IF ttl = Undefined THEN defaultTTL ELSE ttl))

purgeExpired(mem, t) ==
  [k \in CacheKeys |-> IF mem[k].present /\ PurgeTest(mem[k], t) THEN NoEntry ELSE mem[k]]

\* the object saveToDisk serialises (342-350)
Serializable(mem, t) ==
  [k \in CacheKeys |-> IF mem[k].present /\ SaveKeeps(mem[k], t) THEN mem[k] ELSE NoEntry]

UnlinkOp == [kind |-> "unlink", payload |-> EmptyMap]
WriteOp(m) == [kind |-> "write", payload |-> m]

\* mutant: an empty store is written as an empty object instead of deleting
\* the file
SaveSync_WritesEmpty(mem, f, t) == JsonFile(Serializable(mem, t))

\* saveToDisk(true) (324-364): the file after the synchronous save
SaveSync(mem, f, t) ==
  IF Size(mem) = 0
  THEN IF FileExists(f) THEN AbsentFile ELSE f
  ELSE JsonFile(Serializable(mem, t))

\* saveToDisk() (324-364): the file operations in flight once the call has
\* reached its await
SaveAsync(mem, f, t, ops) ==
  IF Size(mem) = 0
  THEN IF FileExists(f) THEN ops \cup {UnlinkOp} ELSE ops
  ELSE ops \cup {WriteOp(Serializable(mem, t))}

\* the file after an operation in flight has been carried out
ApplyOp(op) == IF op.kind = "unlink" THEN AbsentFile ELSE JsonFile(op.payload)

(***************************************************************************)
(* loadFromDisk after its await (371-400): the map once the read has       *)
(* completed at time t.  A file that is gone or does not parse makes       *)
(* readFile or JSON.parse throw, and the catch clause clears the map.      *)
(***************************************************************************)
LoadInto(mem, f, t) ==
  IF f.state # "json"
  THEN EmptyMap
  ELSE [k \in CacheKeys |->
          IF f.entries[k].present /\ LoadKeeps(f.entries[k], t)
          THEN f.entries[k]
          ELSE mem[k]]

\* history of the save that produced the file, kept only by a run that
\* follows it (saveState starts as "none"; "untracked" otherwise)
Track(v) == IF saveState = "untracked" THEN "untracked" ELSE v

SaveStarted(mem, f, ops) ==
  IF freshLoad = "reading" THEN "none"
  ELSE IF Size(mem) = 0 /\ ~FileExists(f) THEN "done"
  ELSE IF ops = {} THEN "inflight"
  ELSE "none"

\* the endpoint methods at rest
NoEndpoint == [pending |-> {}, sent |-> 0]

\* the timer and the process of a store constructed with autoSaveInterval ms
\* (54-61)
TimerInit(ms) ==
  /\ autoSave = (ms > 0)
  /\ timers = (IF ms > 0 THEN 1 ELSE 0)
  /\ interval = ms
  /\ disposed = FALSE
  /\ process = "running"
  /\ endpoint = NoEndpoint

\* the paths of a store constructed without options (47-49)
DefaultPaths ==
  [cacheDir |-> "home/.kovaaks-api-cache",
   cacheFile |-> [dir |-> "home/.kovaaks-api-cache", name |-> "cache.json"],
   name |-> "cache.json"]

CacheIdle ==
  /\ paths = DefaultPaths
  /\ setCalls = 0
  /\ cache = EmptyMap
  /\ enabled = TRUE
  /\ TimerInit(DEFAULT_AUTO_SAVE)
  /\ file = AbsentFile
  /\ loads = 0
  /\ io = {}
  /\ lastGet = NoGet
  /\ written = EmptyMap
  /\ forgotten = {}
  /\ saveState = "none"
  /\ freshCache = EmptyMap
  /\ freshLoad = "none"

\* the store after its constructor (36-65): the map is empty, the initial
\* loadFromDisk is suspended in readFile when the file exists
StoreInit(tracking, ms) ==
  /\ paths = DefaultPaths
  /\ setCalls = 0
  /\ cache = EmptyMap
  /\ enabled = TRUE
  /\ TimerInit(ms)
  /\ file \in InitialFiles
  /\ loads = (IF FileExists(file) THEN 1 ELSE 0)
  /\ io = {}
  /\ lastGet = NoGet
  /\ written = EmptyMap
  /\ forgotten = {}
  /\ saveState = tracking
  /\ freshCache = EmptyMap
  /\ freshLoad = "none"

\* the apiCache singleton (497): constructed without options
CacheInit(tracking) == StoreInit(tracking, DEFAULT_AUTO_SAVE)

\* mutant: get does not test enableCaching
CacheGet_IgnoresDisabled(k) ==
  /\ IF ~cache[k].present
     THEN /\ lastGet' = [op |-> "get", key |-> k, result |-> NULL]
          /\ UNCHANGED <<cache, saveState>>
     ELSE IF GetExpired(cache[k], now)
     THEN /\ cache' = [cache EXCEPT ![k] = NoEntry]
          /\ lastGet' = [op |-> "get", key |-> k, result |-> NULL]
          /\ saveState' = Track("none")
     ELSE /\ lastGet' = [op |-> "get", key |-> k, result |-> cache[k].data]
          /\ UNCHANGED <<cache, saveState>>
  /\ UNCHANGED <<now, enabled, autoSave, file, loads, io, written, forgotten,
                 freshCache, freshLoad>>
  /\ UNCHANGED <<reqVars, fnVars, auxVars>>
  /\ UNCHANGED setCalls
  /\ UNCHANGED procVars

\* get (196-218)
CacheGet(k) ==
  /\ IF ~enabled \/ ~cache[k].present
     THEN /\ lastGet' = [op |-> "get", key |-> k, result |-> NULL]
          /\ UNCHANGED <<cache, saveState>>
     ELSE IF GetExpired(cache[k], now)
     THEN /\ cache' = [cache EXCEPT ![k] = NoEntry]
          /\ lastGet' = [op |-> "get", key |-> k, result |-> NULL]
          /\ saveState' = Track("none")
     ELSE /\ lastGet' = [op |-> "get", key |-> k, result |-> cache[k].data]
          /\ UNCHANGED <<cache, saveState>>
  /\ UNCHANGED <<now, enabled, autoSave, file, loads, io, written, forgotten,
                 freshCache, freshLoad>>
  /\ UNCHANGED <<reqVars, fnVars, auxVars>>
  /\ UNCHANGED setCalls
  /\ UNCHANGED procVars

\* has (268-286)
CacheHas(k) ==
  /\ IF ~enabled \/ ~cache[k].present
     THEN /\ lastGet' = [op |-> "has", key |-> k, result |-> "false"]
          /\ UNCHANGED <<cache, saveState>>
     ELSE IF HasExpired(cache[k], now)
     THEN /\ cache' = [cache EXCEPT ![k] = NoEntry]
          /\ lastGet' = [op |-> "has", key |-> k, result |-> "false"]
          /\ saveState' = Track("none")
     ELSE /\ lastGet' = [op |-> "has", key |-> k, result |-> "true"]
          /\ UNCHANGED <<cache, saveState>>
  /\ UNCHANGED <<now, enabled, autoSave, file, loads, io, written, forgotten,
                 freshCache, freshLoad>>
  /\ UNCHANGED <<reqVars, fnVars, auxVars>>
  /\ UNCHANGED setCalls
  /\ UNCHANGED procVars

\* set (227-243)
CacheSet(k, data, ttl) ==
  /\ setCalls < MaxSets
  /\ setCalls' = setCalls + 1
  /\ IF ~enabled
     THEN UNCHANGED <<cache, written, forgotten, saveState>>
     ELSE /\ cache' = [cache EXCEPT ![k] = SetEntry(data, ttl, now)]
          /\ written' = [written EXCEPT ![k] = SetEntry(data, ttl, now)]
          /\ forgotten' = forgotten \ {k}
          /\ saveState' = Track("none")
  /\ lastGet' = NoGet
  /\ UNCHANGED <<now, enabled, autoSave, file, loads, io, freshCache, freshLoad>>
  /\ UNCHANGED <<reqVars, fnVars, auxVars>>
  /\ UNCHANGED procVars

\* delete (250-252)
CacheDelete(k) ==
  /\ cache[k].present \/ written[k].present
  /\ cache' = [cache EXCEPT ![k] = NoEntry]
  /\ written' = [written EXCEPT ![k] = NoEntry]
  /\ saveState' = Track("none")
  /\ lastGet' = NoGet
  /\ UNCHANGED <<now, enabled, autoSave, file, loads, io, forgotten, freshCache,
                 freshLoad>>
  /\ UNCHANGED <<reqVars, fnVars, auxVars>>
  /\ UNCHANGED setCalls
  /\ UNCHANGED procVars

\* clear (257-260): empties the map and starts saveToDisk()
CacheClear ==
  /\ Cardinality(SaveAsync(EmptyMap, file, now, io)) <= MaxIo
  /\ cache' = EmptyMap
  /\ io' = SaveAsync(EmptyMap, file, now, io)
  /\ written' = EmptyMap
  /\ saveState' = Track(SaveStarted(EmptyMap, file, io))
  /\ lastGet' = Returned("saveToDisk()")
  /\ UNCHANGED <<now, enabled, autoSave, file, loads, forgotten, freshCache,
                 freshLoad>>
  /\ UNCHANGED <<reqVars, fnVars, auxVars>>
  /\ UNCHANGED setCalls
  /\ UNCHANGED procVars

\* the enableCaching setter (118-124), reached through
\* KovaaksClient's constructor and setCaching (index.ts 40-42, 70-72)
SetEnableCaching(value) ==
  /\ enabled' = value
  /\ IF value
     THEN UNCHANGED <<cache, io, written, forgotten, saveState>>
     ELSE /\ Cardinality(SaveAsync(EmptyMap, file, now, io)) <= MaxIo
          /\ cache' = EmptyMap
          /\ io' = SaveAsync(EmptyMap, file, now, io)
          /\ written' = EmptyMap
          /\ forgotten' = forgotten \cup {k \in CacheKeys : cache[k].present}
          /\ saveState' = Track(SaveStarted(EmptyMap, file, io))
  /\ lastGet' = (IF value THEN NoGet ELSE Returned("saveToDisk()"))
  /\ UNCHANGED <<now, autoSave, file, loads, freshCache, freshLoad>>
  /\ UNCHANGED <<reqVars, fnVars, auxVars>>
  /\ UNCHANGED setCalls
  /\ UNCHANGED procVars

\* purgeExpired (300-316)
PurgeExpired ==
  /\ purgeExpired(cache, now) # cache
  /\ cache' = purgeExpired(cache, now)
  /\ saveState' = Track("none")
  /\ lastGet' = NoGet
  /\ UNCHANGED <<now, enabled, autoSave, file, loads, io, written, forgotten,
                 freshCache, freshLoad>>
  /\ UNCHANGED <<reqVars, fnVars, auxVars>>
  /\ UNCHANGED setCalls
  /\ UNCHANGED procVars

\* saveToDisk(true) (324-364), also the exit handlers (101-113); failed: the
\* unlinkSync or writeFileSync throws
SaveToDiskSync(failed) ==
  /\ failed => SaveSync(cache, file, now) # file
  /\ file' = (IF failed THEN file ELSE SaveSync(cache, file, now))
  /\ saveState' = Track(IF freshLoad = "reading" \/ failed THEN "none" ELSE "done")
  /\ lastGet' = [op |-> "saveToDisk(true)", key |-> "",
                 result |-> CallResult(IF Size(cache) = 0 THEN "unlink" ELSE "write",
                                       failed)]
  /\ UNCHANGED <<now, cache, enabled, autoSave, loads, io, written, forgotten,
                 freshCache, freshLoad>>
  /\ UNCHANGED <<reqVars, fnVars, auxVars>>
  /\ UNCHANGED setCalls
  /\ UNCHANGED procVars

\* saveToDisk() (324-364) up to its await
SaveToDisk ==
  /\ Cardinality(SaveAsync(cache, file, now, io)) <= MaxIo
  /\ io' = SaveAsync(cache, file, now, io)
  /\ saveState' = Track(SaveStarted(cache, file, io))
  /\ lastGet' = Returned("saveToDisk()")
  /\ UNCHANGED <<now, cache, enabled, autoSave, file, loads, written, forgotten,
                 freshCache, freshLoad>>
  /\ UNCHANGED <<reqVars, fnVars, auxVars>>
  /\ UNCHANGED setCalls
  /\ UNCHANGED procVars

\* a tick of the autosave timer (55-60): purgeExpired, then saveToDisk()
AutoSaveTick ==
  /\ timers > 0
  /\ Cardinality(SaveAsync(purgeExpired(cache, now), file, now, io)) <= MaxIo
  /\ cache' = purgeExpired(cache, now)
  /\ io' = SaveAsync(purgeExpired(cache, now), file, now, io)
  /\ saveState' = Track(IF cache' # cache THEN "none"
                         ELSE SaveStarted(cache, file, io))
  /\ lastGet' = [op |-> "saveToDisk()", key |-> "", result |-> "tick"]
  /\ UNCHANGED <<now, enabled, autoSave, file, loads, written, forgotten,
                 freshCache, freshLoad>>
  /\ UNCHANGED <<reqVars, fnVars, auxVars>>
  /\ UNCHANGED setCalls
  /\ UNCHANGED procVars

\* the unlink or writeFile awaited by saveToDisk() is carried out, or fails
\* (331, 355); the promise of saveToDisk() settles
IoCompletes(op, failed) ==
  /\ op \in io
  /\ io' = io \ {op}
  /\ file' = (IF failed THEN file ELSE ApplyOp(op))
  /\ saveState' = Track(IF saveState = "inflight" /\ freshLoad # "reading" /\ ~failed
                         THEN "done" ELSE "none")
  /\ lastGet' = [op |-> "saveToDisk() settled", key |-> "",
                 result |-> CallResult(op.kind, failed)]
  /\ UNCHANGED <<now, cache, enabled, autoSave, loads, written, forgotten,
                 freshCache, freshLoad>>
  /\ UNCHANGED <<reqVars, fnVars, auxVars>>
  /\ UNCHANGED setCalls
  /\ UNCHANGED procVars

\* loadFromDisk() (371-373): existsSync, then the await of readFile; also
\* the reload started by updateConfig (168-171)
LoadFromDisk ==
  /\ loads < MaxLoads
  /\ loads' = (IF FileExists(file) THEN loads + 1 ELSE loads)
  /\ lastGet' = [op |-> "loadFromDisk()", key |-> "",
                 result |-> IF FileExists(file) THEN "reading" ELSE "missing"]
  /\ UNCHANGED <<now, cache, enabled, autoSave, file, io, written, forgotten,
                 saveState, freshCache, freshLoad>>
  /\ UNCHANGED <<reqVars, fnVars, auxVars>>
  /\ UNCHANGED setCalls
  /\ UNCHANGED procVars

\* the options cacheDir and cacheFile of updateConfig: absent, or a path
NoPathOption == "<undefined>"
DirArgs == {NoPathOption, "data"}
FileArgs == {NoPathOption, "other.json"}

\* the paths after updateConfig({cacheDir: dir, cacheFile: name}) (150-156)
UpdatedPaths(p, dir, name) ==
  LET cacheDir == IF dir # NoPathOption THEN dir ELSE p.cacheDir IN
  [cacheDir |-> cacheDir,
   cacheFile |-> IF name # NoPathOption THEN [dir |-> cacheDir, name |-> name]
                 ELSE p.cacheFile,
   name |-> IF name # NoPathOption THEN name ELSE p.name]

\* updateConfig({cacheDir: dir, cacheFile: name}) (148-172): the paths, the
\* mkdirSync in its try block, and the reload, which runs loadFromDisk up to
\* its await of readFile.  file is the file at this.cacheFile: when the path
\* changes it is whatever lies at the new path.  The call is followed while
\* no read of the old path is suspended.
UpdateConfigPaths(dir, name) ==
  /\ dir # NoPathOption \/ name # NoPathOption
  /\ loads = 0 /\ io = {}
  /\ paths' = UpdatedPaths(paths, dir, name)
  /\ IF paths'.cacheFile = paths.cacheFile
     THEN file' = file
     ELSE file' \in InitialFiles
  /\ loads' = (IF FileExists(file') THEN loads + 1 ELSE loads)
  /\ lastGet' = [op |-> "updateConfig()", key |-> "",
                 result |-> IF FileExists(file') THEN "reading" ELSE "missing"]
  /\ UNCHANGED <<now, cache, enabled, autoSave, io, written, forgotten,
                 saveState, freshCache, freshLoad>>
  /\ UNCHANGED <<reqVars, fnVars, batch, delayCall>>
  /\ UNCHANGED setCalls
  /\ UNCHANGED procVars

\* a loadFromDisk resumes after await readFile (373-399); the file is read as
\* it is when the read completes, or the read fails; the promise settles
LoadCompletes(failed) ==
  /\ loads > 0
  /\ loads' = loads - 1
  /\ cache' = (IF failed THEN EmptyMap ELSE LoadInto(cache, file, now))
  /\ saveState' = Track("none")
  /\ lastGet' = [op |-> "loadFromDisk() settled", key |-> "",
                 result |-> CallResult("read", failed \/ file.state # "json")]
  /\ UNCHANGED <<now, enabled, autoSave, file, io, written, forgotten,
                 freshCache, freshLoad>>
  /\ UNCHANGED <<reqVars, fnVars, auxVars>>
  /\ UNCHANGED setCalls
  /\ UNCHANGED procVars

\* a second store is constructed on the same file (36-65, 371-373)
FreshStore ==
  /\ freshLoad = "none"
  /\ freshCache' = EmptyMap
  /\ freshLoad' = (IF FileExists(file) THEN "reading" ELSE "done")
  /\ lastGet' = NoGet
  /\ UNCHANGED <<now, cache, enabled, autoSave, file, loads, io, written,
                 forgotten, saveState>>
  /\ UNCHANGED <<reqVars, fnVars, auxVars>>
  /\ UNCHANGED setCalls
  /\ UNCHANGED procVars

\* the second store's loadFromDisk resumes after await readFile (373-399)
FreshLoadCompletes ==
  /\ freshLoad = "reading"
  /\ freshCache' = LoadInto(freshCache, file, now)
  /\ freshLoad' = "done"
  /\ lastGet' = NoGet
  /\ UNCHANGED <<now, cache, enabled, autoSave, file, loads, io, written,
                 forgotten, saveState>>
  /\ UNCHANGED <<reqVars, fnVars, auxVars>>
  /\ UNCHANGED setCalls
  /\ UNCHANGED procVars

\* the clock advances
CacheTick ==
  /\ now < MaxNow
  /\ now' = now + 1
  /\ lastGet' = NoGet
  /\ UNCHANGED <<cache, enabled, autoSave, file, loads, io, written, forgotten,
                 saveState, freshCache, freshLoad>>
  /\ UNCHANGED <<reqVars, fnVars, auxVars>>
  /\ UNCHANGED setCalls
  /\ UNCHANGED procVars

\* `if (cachedData)` of the endpoint methods (part_001 49-52, 86-89): a
\* stored null, like a miss, is not truthy
Truthy(d) == d # NULL

\* what apiCache.get(k) returns (196-218)
GetResult(mem, k, t, on) ==
  IF ~on \/ ~mem[k].present \/ GetExpired(mem[k], t) THEN NULL ELSE mem[k].data

\* an endpoint method of ScenarioAPI is called (getTrendingScenarios, 82-95;
\* getPopularScenarios, 38-68): apiCache.get, then either the return of the
\* cached data or the transport call through get()
EndpointCall(k) ==
  /\ ~Truthy(GetResult(cache, k, now, enabled))
       => k \notin endpoint.pending /\ endpoint.sent < MaxTransport
  /\ IF enabled /\ cache[k].present /\ GetExpired(cache[k], now)
     THEN cache' = [cache EXCEPT ![k] = NoEntry] /\ saveState' = Track("none")
     ELSE UNCHANGED <<cache, saveState>>
  /\ IF Truthy(GetResult(cache, k, now, enabled))
     THEN /\ lastGet' = [op |-> "endpoint hit", key |-> k,
                         result |-> GetResult(cache, k, now, enabled)]
          /\ UNCHANGED endpoint
     ELSE /\ lastGet' = [op |-> "endpoint awaits", key |-> k, result |-> ""]
          /\ endpoint' = [pending |-> endpoint.pending \cup {k},
                          sent |-> endpoint.sent + 1]
  /\ UNCHANGED <<now, enabled, autoSave, file, loads, io, written, forgotten,
                 freshCache, freshLoad>>
  /\ UNCHANGED <<reqVars, fnVars, auxVars>>
  /\ UNCHANGED <<setCalls, timers, interval, disposed, process>>

\* the transport call of an endpoint method resolves with response, null for
\* a 404 on a scenario route (api.ts 421-429): apiCache.set, then the return
\* (part_001 69-72, 96-99)
EndpointResponds(k, response) ==
  /\ k \in endpoint.pending
  /\ setCalls < MaxSets
  /\ setCalls' = setCalls + 1
  /\ endpoint' = [endpoint EXCEPT !.pending = @ \ {k}]
  /\ IF ~enabled
     THEN UNCHANGED <<cache, written, forgotten, saveState>>
     ELSE /\ cache' = [cache EXCEPT ![k] = SetEntry(response, TRENDING_SCENARIOS, now)]
          /\ written' = [written EXCEPT ![k] = SetEntry(response, TRENDING_SCENARIOS, now)]
          /\ forgotten' = forgotten \ {k}
          /\ saveState' = Track("none")
  /\ lastGet' = [op |-> "endpoint returned", key |-> k, result |-> response]
  /\ UNCHANGED <<now, enabled, autoSave, file, loads, io, freshCache, freshLoad>>
  /\ UNCHANGED <<reqVars, fnVars, auxVars>>
  /\ UNCHANGED <<timers, interval, disposed, process>>

\* the transport call of an endpoint method rejects: nothing is stored
EndpointFails(k) ==
  /\ k \in endpoint.pending
  /\ endpoint' = [endpoint EXCEPT !.pending = @ \ {k}]
  /\ lastGet' = [op |-> "endpoint rejected", key |-> k, result |-> ""]
  /\ UNCHANGED <<now, cache, enabled, autoSave, file, loads, io, written, forgotten,
                 saveState, freshCache, freshLoad>>
  /\ UNCHANGED <<reqVars, fnVars, auxVars>>
  /\ UNCHANGED <<setCalls, timers, interval, disposed, process>>

\* mutant: updateConfig starts the new timer without clearing the old one
TimersAfterConfig_NoClear(handle, count, ms) ==
  count + (IF ms > 0 THEN 1 ELSE 0)

\* updateConfig({autoSaveInterval: ms}) (174-187): the timer behind the
\* handle is cleared, and a new one is started when ms > 0
TimersAfterConfig(handle, count, ms) ==
  (IF handle THEN count - 1 ELSE count) + (IF ms > 0 THEN 1 ELSE 0)

\* updateConfig({autoSaveInterval: ms}) (138-188)
UpdateConfigAutoSave(ms) ==
  /\ timers' = TimersAfterConfig(autoSave, timers, ms)
  /\ autoSave' = (ms > 0)
  /\ interval' = ms
  /\ lastGet' = Returned("updateConfig()")
  /\ UNCHANGED <<now, cache, enabled, file, loads, io, written, forgotten,
                 saveState, freshCache, freshLoad>>
  /\ UNCHANGED <<reqVars, fnVars, auxVars>>
  /\ UNCHANGED <<setCalls, disposed, process, endpoint>>

\* dispose() (486-493): the timer is cleared, then saveToDisk(true)
Dispose ==
  /\ timers' = (IF autoSave THEN timers - 1 ELSE timers)
  /\ autoSave' = FALSE
  /\ disposed' = TRUE
  /\ file' = SaveSync(cache, file, now)
  /\ saveState' = Track(IF freshLoad = "reading" THEN "none" ELSE "done")
  /\ lastGet' = Returned("dispose()")
  /\ UNCHANGED <<now, cache, enabled, loads, io, written, forgotten, freshCache,
                 freshLoad>>
  /\ UNCHANGED <<reqVars, fnVars, auxVars>>
  /\ UNCHANGED <<setCalls, interval, process, endpoint>>

\* the process ends (101-113).  'exit': the handler runs saveToDisk(true).
\* SIGINT: the handler runs saveToDisk(true) and calls process.exit(0), which
\* emits 'exit' and so runs the first handler as well; the second save of
\* the same store at the same time writes the same file.  An event without
\* a handler ends the process with the file as it is.  failed: every
\* attempt to write or delete the file throws.
ProcessEnds(ev, failed) ==
  /\ process = "running"
  /\ process' = "exited"
  /\ failed => ev \in HandledEvents /\ SaveSync(cache, file, now) # file
  /\ file' = (IF ev \in HandledEvents /\ ~failed
              THEN SaveSync(cache, SaveSync(cache, file, now), now)
              ELSE file)
  /\ saveState' = Track(IF ev \in HandledEvents /\ ~failed /\ freshLoad # "reading"
                         THEN "done" ELSE saveState)
  /\ lastGet' = [op |-> ev, key |-> "",
                 result |-> IF ev \in HandledEvents
                            THEN CallResult(IF Size(cache) = 0 THEN "unlink" ELSE "write",
                                            failed)
                            ELSE "no handler"]
  /\ UNCHANGED <<now, cache, enabled, autoSave, loads, io, written, forgotten,
                 freshCache, freshLoad>>
  /\ UNCHANGED <<reqVars, fnVars, auxVars>>
  /\ UNCHANGED <<setCalls, timers, interval, disposed, endpoint>>

(***************************************************************************)
(* batchApiCalls (api.ts 617-660), getScenarioScoresForMultipleUsers       *)
(* (leaderboards.ts 2789-2829), which runs the same loop over users, and   *)
(* the page loop of getAllScenarioScores (leaderboards.ts 2698-2718),      *)
(* which starts every remaining page in one synchronous pass: one batch of *)
(* all n pages.  Calls are numbered 0..n-1.                                *)
(***************************************************************************)
BatchFns == {"batchApiCalls", "getScenarioScoresForMultipleUsers", "getAllScenarioScores"}
ConcurrencyArgs == 0..MaxConcurrency

\* mutant: the loop does not look at the signal
CancelObserved_Never(b) == FALSE

\* cancelSignal?.aborted (api.ts 636, leaderboards.ts 2704, 2792)
CancelObserved(b) == b.hasSignal /\ b.aborted

\* calls.slice(i, i + concurrency) (api.ts 641)
Slice(b) == {j \in 0..(b.n - 1) : b.i <= j /\ j < b.i + b.concurrency}

\* the loop from its test `i < calls.length` to the await of Promise.all
\* (api.ts 634-651), or to the return
LoopTop(b) ==
  IF ~(b.i < b.n) THEN [b EXCEPT !.phase = "resolved"]
  ELSE IF CancelObserved(b) THEN [b EXCEPT !.phase = "resolved"]
  ELSE [b EXCEPT !.started = @ \cup Slice(b), !.phase = "awaitAll"]

\* the helper fn is called with n calls
BatchApiCalls(fn, n, concurrency, hasSignal, aborted) ==
  /\ batch = NoBatch
  /\ aborted => hasSignal
  /\ fn = "getAllScenarioScores" => concurrency = n
  /\ batch' = LoopTop([NoBatch EXCEPT !.fn = fn, !.n = n, !.concurrency = concurrency,
                                      !.hasSignal = hasSignal, !.aborted = aborted])
  /\ UNCHANGED <<now, reqVars, fnVars, cacheVars, procVars, delayCall, paths>>

\* a call that was started settles
BatchCallSettles(j, ok) ==
  /\ j \in batch.started \ batch.settled
  /\ batch' = [batch EXCEPT !.settled = @ \cup {j},
                            !.rejected = IF ok THEN @ ELSE @ \cup {j}]
  /\ UNCHANGED <<now, reqVars, fnVars, cacheVars, procVars, delayCall, paths>>

\* Promise.all of the current batch has settled (api.ts 651-656): the run
\* rejects with the first rejection, or goes on to the delay or to the next
\* test of the loop
BatchContinues ==
  /\ batch.phase = "awaitAll"
  /\ Slice(batch) \cap batch.rejected # {} \/ Slice(batch) \subseteq batch.settled
  /\ batch' = IF Slice(batch) \cap batch.rejected # {}
              THEN [batch EXCEPT !.phase = "rejected"]
              ELSE IF batch.i + batch.concurrency < batch.n
              THEN [batch EXCEPT !.phase = "delay"]
              ELSE LoopTop([batch EXCEPT !.i = batch.i + batch.concurrency])
  /\ UNCHANGED <<now, reqVars, fnVars, cacheVars, procVars, delayCall, paths>>

\* the delay between two batches is over (api.ts 655, 634)
BatchDelayElapses ==
  /\ batch.phase = "delay"
  /\ batch' = LoopTop([batch EXCEPT !.i = batch.i + batch.concurrency])
  /\ UNCHANGED <<now, reqVars, fnVars, cacheVars, procVars, delayCall, paths>>

\* the owner of the AbortController aborts the signal
AbortSignalled ==
  /\ batch.fn # "none"
  /\ batch.hasSignal /\ ~batch.aborted
  /\ batch' = [batch EXCEPT !.aborted = TRUE]
  /\ UNCHANGED <<now, reqVars, fnVars, cacheVars, procVars, delayCall, paths>>

(***************************************************************************)
(* calculateRetryDelay (api.ts 355-367).  Delays are kept in thousandths   *)
(* of a millisecond, and Math.random() in hundredths, so that the jitter   *)
(* 0.8 + random * 0.4 is the integer 800 + 4 * random (in thousandths).    *)
(***************************************************************************)
RECURSIVE Pow(_, _)
\* Math.pow(base, exp) for a natural exp
Pow(base, exp) == IF exp = 0 THEN 1 ELSE base * Pow(base, exp - 1)

\* the delay fields of DEFAULT_RETRY_CONFIG (api.ts 54-56) and of two
\* policies a caller can pass in config.retry
DelayPolicies == {"default", "steep", "flat"}
DelayPolicy(name) ==
  IF name = "default" THEN [initialDelayMs |-> 300, maxDelayMs |-> 10000, backoffFactor |-> 2]
  ELSE IF name = "steep" THEN [initialDelayMs |-> 500, maxDelayMs |-> 5000, backoffFactor |-> 3]
  ELSE [initialDelayMs |-> 500, maxDelayMs |-> 500, backoffFactor |-> 1]

\* values of Math.random(), in hundredths: 0 <= random < 1
RandomSamples == {0, 25, 50, 75, 99}

\* initialDelayMs * Math.pow(backoffFactor, attempt) (360)
exponentialDelay(attempt, policy) ==
  policy.initialDelayMs * Pow(policy.backoffFactor, attempt)

Min(a, b) == IF a <= b THEN a ELSE b

\* mutant: the delay is not capped
calculateRetryDelay_NoCap(attempt, policy, random) ==
  exponentialDelay(attempt, policy) * (800 + 4 * random)

\* calculateRetryDelay, in thousandths of a ms
calculateRetryDelay(attempt, policy, random) ==
  Min(exponentialDelay(attempt, policy) * (800 + 4 * random), policy.maxDelayMs * 1000)

\* calculateRetryDelay is called
CalculateRetryDelay(attempt, name, random) ==
  /\ delayCall' = [attempt |-> attempt, policy |-> name, random |-> random,
                   result |-> calculateRetryDelay(attempt, DelayPolicy(name), random)]
  /\ UNCHANGED <<now, reqVars, fnVars, cacheVars, procVars, batch, paths>>

\* categorizeError is applied to the outcome
Classify ==
  /\ kind = NotClassified
  /\ kind' = categorizeError(outcome)
  /\ UNCHANGED <<now, outcome, reqVars, cacheVars, procVars, auxVars>>

ClassifyNext == Classify

CacheNext ==
  \/ \E k \in CacheKeys : CacheGet(k)
  \/ \E k \in CacheKeys : CacheHas(k)
  \/ \E k \in CacheKeys, data \in CacheValues, ttl \in TtlArgs : CacheSet(k, data, ttl)
  \/ \E k \in CacheKeys : CacheDelete(k)
  \/ CacheClear
  \/ \E value \in BOOLEAN : SetEnableCaching(value)
  \/ PurgeExpired
  \/ SaveToDiskSync(FALSE)
  \/ SaveToDisk
  \/ AutoSaveTick
  \/ \E op \in io : IoCompletes(op, FALSE)
  \/ LoadCompletes(FALSE)
  \/ CacheTick

\* the store with file operations that may fail and with reloads
FaultNext ==
  \/ \E k \in CacheKeys : CacheGet(k)
  \/ \E k \in CacheKeys, data \in CacheValues, ttl \in TtlArgs : CacheSet(k, data, ttl)
  \/ CacheClear
  \/ \E failed \in BOOLEAN : SaveToDiskSync(failed)
  \/ SaveToDisk
  \/ \E op \in io, failed \in BOOLEAN : IoCompletes(op, failed)
  \/ LoadFromDisk
  \/ \E failed \in BOOLEAN : LoadCompletes(failed)
  \/ CacheTick

\* the store with every ttl argument that set accepts
TtlNext ==
  \/ \E k \in CacheKeys : CacheGet(k)
  \/ \E k \in CacheKeys, data \in CacheValues, ttl \in AnyTtlArgs : CacheSet(k, data, ttl)
  \/ SaveToDiskSync(FALSE)
  \/ LoadFromDisk
  \/ LoadCompletes(FALSE)
  \/ CacheTick

\* the endpoint methods on the store
EndpointNext ==
  \/ \E k \in CacheKeys : EndpointCall(k)
  \/ \E k \in CacheKeys, response \in CacheValues \cup {NULL} : EndpointResponds(k, response)
  \/ \E k \in CacheKeys : EndpointFails(k)
  \/ \E k \in CacheKeys : CacheDelete(k)
  \/ LoadCompletes(FALSE)
  \/ CacheTick

\* the store from its construction to the end of its process
LifecycleNext ==
  \/ process = "running"
       /\ \E k \in CacheKeys, data \in CacheValues, ttl \in TtlArgs : CacheSet(k, data, ttl)
  \/ process = "running" /\ CacheClear
  \/ process = "running" /\ AutoSaveTick
  \/ process = "running" /\ \E op \in io : IoCompletes(op, FALSE)
  \/ process = "running" /\ LoadCompletes(FALSE)
  \/ process = "running" /\ \E ms \in IntervalArgs : UpdateConfigAutoSave(ms)
  \/ process = "running" /\ Dispose
  \/ \E ev \in EndEvents, failed \in BOOLEAN : ProcessEnds(ev, failed)
  \/ process = "running" /\ CacheTick

\* the batching helpers
BatchNext ==
  \/ \E fn \in BatchFns, n \in 0..MaxBatchCalls, concurrency \in ConcurrencyArgs,
        hasSignal \in BOOLEAN, aborted \in BOOLEAN :
          BatchApiCalls(fn, n, concurrency, hasSignal, aborted)
  \/ \E j \in 0..(MaxBatchCalls - 1), ok \in BOOLEAN : BatchCallSettles(j, ok)
  \/ BatchContinues
  \/ BatchDelayElapses
  \/ AbortSignalled

DelayNext ==
  \E attempt \in 0..MaxAttempt, name \in DelayPolicies, random \in RandomSamples :
    CalculateRetryDelay(attempt, name, random)

PersistNext ==
  \/ \E k \in CacheKeys, data \in CacheValues, ttl \in TtlArgs : CacheSet(k, data, ttl)
  \/ \E k \in CacheKeys : CacheDelete(k)
  \/ PurgeExpired
  \/ SaveToDiskSync(FALSE)
  \/ SaveToDisk
  \/ AutoSaveTick
  \/ \E op \in io : IoCompletes(op, FALSE)
  \/ LoadCompletes(FALSE)
  \/ FreshStore
  \/ FreshLoadCompletes
  \/ CacheTick

vars == <<now, reqVars, fnVars, cacheVars, procVars, auxVars>>

Init == now = 0 /\ ReqInit /\ FnIdle /\ CacheIdle

\* both deduplication layers side by side
Spec == Init /\ [][DedupNext]_vars

\* the wrappers of two functions that have the same name
SpecSameName == Init /\ [][SameNameNext]_vars

\* both layers with their timers and the clock running: the interval timers
\* of api.ts 129 and 319 fire again and again, and time passes
SpecLive ==
  /\ Init /\ [][DedupNext]_vars
  /\ WF_vars(ReqTick)
  /\ WF_vars(MethodCleanupTimer)
  /\ WF_vars(RequestCleanupTimer)

\* the retrying executor under every client, policy and transport outcome
SpecRetry == Init /\ [][RetryNext]_vars

\* categorizeError applied to every outcome of the input domain
InitClassify ==
  now = 0 /\ ReqInit /\ CacheIdle /\ outcome \in Outcomes /\ kind = NotClassified

SpecClassify == InitClassify /\ [][ClassifyNext]_vars

\* the cache store and its file
InitCache == now = StartTime /\ ReqInit /\ FnIdle /\ CacheInit("untracked")

SpecCache == InitCache /\ [][CacheNext]_vars

\* the cache store, its file and a second store constructed on the file
InitPersist == now = StartTime /\ ReqInit /\ FnIdle /\ CacheInit("none")

\* the store on a file system whose operations may fail
InitFault == now = StartTime /\ ReqInit /\ FnIdle /\ CacheInit("untracked")

SpecFault == InitFault /\ [][FaultNext]_vars

\* the store whose directory and file name are reconfigured
PathsNext ==
  \/ \E k \in CacheKeys : CacheGet(k)
  \/ \E k \in CacheKeys, data \in CacheValues, ttl \in TtlArgs : CacheSet(k, data, ttl)
  \/ SaveToDiskSync(FALSE)
  \/ \E dir \in DirArgs, name \in FileArgs : UpdateConfigPaths(dir, name)
  \/ LoadCompletes(FALSE)

InitPaths == now = StartTime /\ ReqInit /\ FnIdle /\ CacheInit("untracked")

SpecPaths == InitPaths /\ [][PathsNext]_vars

\* the store called with every ttl argument
InitTtl == now = StartTime /\ ReqInit /\ FnIdle /\ CacheInit("untracked")

SpecTtl == InitTtl /\ [][TtlNext]_vars

\* the endpoint methods calling through the store
InitEndpoint == now = StartTime /\ ReqInit /\ FnIdle /\ CacheInit("untracked")

SpecEndpoint == InitEndpoint /\ [][EndpointNext]_vars

\* a store constructed with or without periodic saving
InitLifecycle ==
  /\ now = StartTime /\ ReqInit /\ FnIdle
  /\ \E ms \in IntervalArgs : StoreInit("untracked", ms)

SpecLifecycle == InitLifecycle /\ [][LifecycleNext]_vars

\* the batching helpers; every call that was started settles, and timers
\* and promise reactions run
SpecBatch == Init /\ [][BatchNext]_vars

SpecBatchLive ==
  /\ Init /\ [][BatchNext]_vars
  /\ WF_vars(\E j \in 0..(MaxBatchCalls - 1), ok \in BOOLEAN : BatchCallSettles(j, ok))
  /\ WF_vars(BatchContinues)
  /\ WF_vars(BatchDelayElapses)

\* calculateRetryDelay applied to every input of the domain
SpecDelay == Init /\ [][DelayNext]_vars

SpecPersist == InitPersist /\ [][PersistNext]_vars

(***************************************************************************)
(* Properties of the request layer.                                        *)
(***************************************************************************)
Settled(p) == promises[p].state \in {"resolved", "rejected"}

\* a call of the given layer and key arrives in this step
Arrives(layer, key) ==
  /\ arrivals' = arrivals + 1
  /\ lastCall'.layer = layer
  /\ lastCall'.key = key

\* the map holds a record for key whose call is in flight and whose TTL has
\* not passed (the clock is not beyond expiresAt)
LiveRecord(map, key) ==
  /\ map[key].promise # 0
  /\ promises[map[key].promise].state = "pending"
  /\ now <= map[key].expiresAt

\* the arriving call got the promise of the record and started nothing
SharesRecord(map, key) ==
  /\ nextId' = nextId
  /\ promises' = promises
  /\ ~lastCall'.fresh
  /\ lastCall'.promise = map[key].promise

RawCallsShare ==
  \A k \in RequestKeys :
    (Arrives("raw", k) /\ lastCall'.dedup /\ LiveRecord(pendingRequests, k))
      => (SharesRecord(pendingRequests, k) /\ pendingRequests'[k] = pendingRequests[k])

MethodCallsShare ==
  \A k \in MethodKeys :
    (Arrives("method", k) /\ LiveRecord(pendingMethodCalls, k))
      => (SharesRecord(pendingMethodCalls, k)
          /\ pendingMethodCalls'[k] = pendingMethodCalls[k])

\* C1: in both layers a call with key k that arrives while an earlier call
\* with key k is in flight and its record has not passed its TTL starts no
\* second execution, leaves the one record of k in place and gets the promise
\* of that record, hence the first caller's value or error (retryAttempts
\* included).
C1_SharedWhileInFlight == [][RawCallsShare /\ MethodCallsShare]_vars

\* the part of C1 that is about makeAuthenticatedRequest alone
C1_RawLayerOnly == [][RawCallsShare]_vars

\* no record outlives the settlement of its own promise
NoStaleRecord ==
  /\ \A k \in RequestKeys :
       pendingRequests[k].promise # 0 => ~Settled(pendingRequests[k].promise)
  /\ \A k \in MethodKeys :
       pendingMethodCalls[k].promise # 0 => ~Settled(pendingMethodCalls[k].promise)

\* some call of the layer with this key has settled
SomeSettled(layer, key) ==
  \E p \in PromiseIds :
    promises[p].layer = layer /\ promises[p].key = key /\ Settled(p)

\* the arriving call started an execution of its own, still unsettled
StartsFresh ==
  /\ nextId' = nextId + 1
  /\ lastCall'.fresh
  /\ lastCall'.promise = nextId'
  /\ promises[nextId'].state = "none"
  /\ promises'[nextId'].state = "pending"

FreshAfterSettle ==
  /\ \A k \in RequestKeys :
       (Arrives("raw", k) /\ SomeSettled("raw", k) /\ pendingRequests[k].promise = 0)
         => StartsFresh
  /\ \A k \in MethodKeys :
       (Arrives("method", k) /\ SomeSettled("method", k)
          /\ pendingMethodCalls[k].promise = 0)
         => StartsFresh

\* C10: when a deduplicated call settles its record is gone with it, and the
\* next call with that key (no record left) starts an execution of its own
\* and gets that execution's promise, never the promise of a settled call.
C10_FreshAfterSettle == []NoStaleRecord /\ [][FreshAfterSettle]_vars

\* C10 witness: a second call with the key of a settled call ran its own
\* execution and settled with another value than the first.
C10_Witness ==
  /\ lastCall.fresh /\ lastCall.dedup /\ lastCall.promise = 2
  /\ promises[1].layer = promises[2].layer
  /\ promises[1].key = promises[2].key
  /\ promises[1].state = "rejected"
  /\ promises[2].state = "resolved"
  /\ promises[2].value \in ResponseData

(***************************************************************************)
(* Properties of the retrying executor.                                    *)
(***************************************************************************)
RawPromises == {p \in PromiseIds : promises[p].layer = "raw"}

Policied == {p \in RawPromises : ~promises[p].retryConfig.disabled}

MaxRetriesOf(p) == promises[p].retryConfig.maxRetries
CodesOf(p) == promises[p].retryConfig.retryableStatusCodes

\* the last attempt of p failed and ended the call
EndedByFailure(p) ==
  \/ promises[p].state = "rejected"
  \/ promises[p].state = "resolved" /\ promises[p].value = "null"

\* the transport is invoked again only after a failure with a status in R and
\* while fewer than m retries were made
RetriesWithinPolicy ==
  \A p \in Policied :
    /\ promises[p].attempts = promises[p].retryAttempt + 1
    /\ promises[p].retryAttempt <= MaxRetriesOf(p)
    /\ promises[p].phase = "delay" =>
         /\ StatusOrZero(promises[p].error) \in CodesOf(p)
         /\ promises[p].retryAttempt < MaxRetriesOf(p)

\* a first failure with a status outside R: exactly one attempt
OutsideListOnce ==
  \A p \in Policied :
    (promises[p].firstStatus # Undefined /\ promises[p].firstStatus \notin CodesOf(p))
      => (promises[p].attempts = 1 /\ EndedByFailure(p))

\* a success after k failures resolves with the response data after k + 1
\* attempts
SuccessAfterRetries ==
  \A p \in Policied :
    (promises[p].state = "resolved" /\ promises[p].value # "null")
      => /\ promises[p].value \in ResponseData
         /\ promises[p].attempts = promises[p].retryAttempt + 1

C3_WitnessSuccess ==
  \E p \in Policied :
    /\ promises[p].state = "resolved"
    /\ promises[p].value \in ResponseData
    /\ promises[p].attempts = 3

DefaultPolicy(p) ==
  /\ ~promises[p].retryConfig.disabled
  /\ MaxRetriesOf(p) = DEFAULT_RETRY_CONFIG.maxRetries
  /\ CodesOf(p) = DEFAULT_RETRY_CONFIG.retryableStatusCodes

\* error.type || categorizeError(error)
KindOf(error) == IF error.type # NoType THEN error.type ELSE categorizeError(error)

\* C7: on a client made by createApiClient a transport call that got no
\* response fails with kind Timeout, and under the default retry policy the
\* call is rejected only after maxRetries retries (maxRetries + 1 attempts).
C7_TimeoutRetried ==
  \A p \in RawPromises :
    (promises[p].client = "api" /\ DefaultPolicy(p)
       /\ promises[p].state = "rejected" /\ promises[p].error.status = 0)
      => /\ promises[p].error.type = TIMEOUT
         /\ promises[p].attempts = DEFAULT_RETRY_CONFIG.maxRetries + 1

\* the classification half of C7 alone
C7_ClassifiedTimeout ==
  \A p \in RawPromises :
    (promises[p].client = "api" /\ promises[p].error.status = 0)
      => promises[p].error.type = TIMEOUT

NonRetryableKinds ==
  {AUTHENTICATION_ERROR, AUTHORIZATION_ERROR, VALIDATION_ERROR, NOT_FOUND,
   UNKNOWN_ERROR}

\* C8: under every policy a failure of a non-retryable kind is never followed
\* by a retry (no call waits in the backoff delay on such a failure).
C8_NonRetryableNeverRetried ==
  \A p \in RawPromises :
    promises[p].phase = "delay" => KindOf(promises[p].error) \notin NonRetryableKinds

\* C9: the error of a rejected call carries retryAttempts = the number of
\* transport attempts made, and retryable set: true exactly for Timeout,
\* NetworkError, ServerError and RateLimited.
C9_AttemptsAndRetryable ==
  \A p \in RawPromises :
    promises[p].state = "rejected" =>
      /\ promises[p].error.retryAttempts = promises[p].attempts
      /\ promises[p].error.retryable =
           BoolStr(promises[p].error.type \in RetryableKinds)

\* the two halves of C9, apart
C9_AttemptsOnly ==
  \A p \in RawPromises :
    promises[p].state = "rejected" =>
      promises[p].error.retryAttempts = promises[p].attempts

C9_RetryableOnly ==
  \A p \in RawPromises :
    promises[p].state = "rejected" =>
      promises[p].error.retryable = BoolStr(promises[p].error.type \in RetryableKinds)


(***************************************************************************)
(* The classifier (SpecClassify)                                           *)
(***************************************************************************)
Kinds ==
  {NETWORK_ERROR, TIMEOUT, AUTHENTICATION_ERROR, AUTHORIZATION_ERROR, NOT_FOUND,
   VALIDATION_ERROR, RATE_LIMITED, SERVER_ERROR, UNKNOWN_ERROR}

NoStatus(o) == o.status = Undefined \/ o.status = 0
MentionsTimeout(o) ==
  o.message \in Messages \ {NoMessage, ""}
  /\ (IncludesTimeout(o.message) \/ IncludesTimedOut(o.message))

\* the ordered rules, first match wins
RuleTable(o) ==
  CASE NoStatus(o) /\ MentionsTimeout(o) -> TIMEOUT
    [] NoStatus(o) /\ ~MentionsTimeout(o) -> NETWORK_ERROR
    [] ~NoStatus(o) /\ o.status = 401 -> AUTHENTICATION_ERROR
    [] ~NoStatus(o) /\ o.status = 403 -> AUTHORIZATION_ERROR
    [] ~NoStatus(o) /\ o.status = 404 -> NOT_FOUND
    [] ~NoStatus(o) /\ o.status = 422 -> VALIDATION_ERROR
    [] ~NoStatus(o) /\ o.status = 429 -> RATE_LIMITED
    [] ~NoStatus(o) /\ o.status \notin {401, 403, 404, 422, 429} /\ o.status >= 500
         -> SERVER_ERROR
    [] ~NoStatus(o) /\ o.status \notin {401, 403, 404, 422, 429} /\ o.status < 500
       /\ o.code = "ECONNABORTED" -> TIMEOUT
    [] OTHER -> UNKNOWN_ERROR

\* C4: categorizeError returns a kind for every outcome (optional status,
\* message and code), leaves the outcome as it was, and the kind is the one
\* the ordered rule table gives: no status (or 0) with a timeout message ->
\* Timeout; no status -> NetworkError; 401, 403, 404, 422, 429 -> their
\* kinds; status >= 500 -> ServerError; code ECONNABORTED -> Timeout;
\* otherwise UnknownError.
C4_RuleTable ==
  kind # NotClassified => kind \in Kinds /\ kind = RuleTable(outcome)

\* a 408 response whose code is ECONNABORTED has been classified Timeout,
\* past the status rules
C4_Witness ==
  /\ kind = TIMEOUT
  /\ outcome.status = 408
  /\ outcome.code = "ECONNABORTED"

(***************************************************************************)
(* The cache store (SpecCache)                                             *)
(***************************************************************************)
JustGot(k) == lastGet.op = "get" /\ lastGet.key = k

\* get(k) returns the value of the latest set(k, v, ttl) while the clock has
\* not passed its expiresAt
LiveGetReturnsValue ==
  \A k \in CacheKeys :
    (enabled /\ JustGot(k) /\ written[k].present /\ now <= written[k].expiresAt)
      => lastGet.result = written[k].data

\* get(k) after the clock has passed expiresAt misses and removes the entry
ExpiredGetRemoves ==
  \A k \in CacheKeys :
    (enabled /\ JustGot(k) /\ written[k].present /\ now > written[k].expiresAt)
      => lastGet.result = NULL /\ ~cache[k].present

\* C2: with caching enabled, after set(k, v, ttl) a get(k) returns v as long
\* as the clock has not passed the entry's expiresAt and k was not set,
\* deleted or cleared in between; a get(k) after the clock has passed
\* expiresAt misses and leaves no entry for k in the map.
C2_SetThenGet == LiveGetReturnsValue /\ ExpiredGetRemoves

\* C5: while caching is off the map holds no entry and every get misses, and
\* after caching is switched on again get(k) misses for every key that was
\* held when it was switched off, until k is set again.
C5_ToggleOffForgets ==
  /\ ~enabled => Size(cache) = 0
  /\ (~enabled /\ lastGet.op = "get") => lastGet.result = NULL
  /\ \A k \in forgotten : (enabled /\ JustGot(k)) => lastGet.result = NULL

\* the second store has just completed its load of a file that a completed
\* saveToDisk of the unchanged first store produced
FreshLoaded == freshLoad # "done" /\ freshLoad' = "done" /\ saveState = "done"

RoundTrip ==
  \A k \in CacheKeys :
    IF cache[k].present /\ now <= cache[k].expiresAt
    THEN /\ freshCache'[k].present
         /\ freshCache'[k].data = cache[k].data
         /\ freshCache'[k].expiresAt = cache[k].expiresAt
    ELSE ~freshCache'[k].present

\* C6: after set calls and a completed saveToDisk, a fresh store on the same
\* file that runs loadFromDisk holds, for every key whose entry has not
\* expired at load time, an entry with the same data and expiresAt, and no
\* entry for a key whose entry had expired at save time or at load time.
C6_RoundTrip == [][FreshLoaded => RoundTrip]_vars

\* the fresh store has loaded one saved entry and holds none for a key whose
\* entry in the first store has expired
C6_Witness ==
  /\ freshLoad = "done"
  /\ saveState = "done"
  /\ \E k \in CacheKeys : freshCache[k].present /\ freshCache[k] = cache[k]
  /\ \E k \in CacheKeys :
       cache[k].present /\ now > cache[k].expiresAt /\ ~freshCache[k].present

(***************************************************************************)
(* Records that have outlived their TTL (Spec)                             *)
(***************************************************************************)
\* the map holds a record for key whose call is in flight although the
\* clock is beyond expiresAt
OutlivedRecord(map, key) ==
  /\ map[key].promise # 0
  /\ promises[map[key].promise].state = "pending"
  /\ now > map[key].expiresAt

\* the arriving call started an execution of its own and registered it
StartsOwnExecution(map, mapAfter, key, ttl) ==
  /\ lastCall'.fresh
  /\ lastCall'.promise = nextId + 1
  /\ promises'[nextId + 1].state = "pending"
  /\ promises'[map[key].promise] = promises[map[key].promise]
  /\ mapAfter[key] = [promise |-> nextId + 1, timestamp |-> now,
                      expiresAt |-> now + ttl]

\* C11: when the pending record of key k has outlived its TTL (30 s in the
\* raw layer, 120 s by default in the wrapper layer) and its call has not
\* settled, a new call with key k starts a fresh execution and registers a
\* new record; it does not get the old pending promise.
C11_FreshAfterTtl ==
  [][/\ \A k \in RequestKeys :
          (Arrives("raw", k) /\ lastCall'.dedup /\ OutlivedRecord(pendingRequests, k))
            => StartsOwnExecution(pendingRequests, pendingRequests', k,
                                  PENDING_REQUEST_TTL)
     /\ \A k \in MethodKeys :
          (Arrives("method", k) /\ OutlivedRecord(pendingMethodCalls, k))
            => StartsOwnExecution(pendingMethodCalls, pendingMethodCalls', k,
                                  PENDING_METHOD_CALL_TTL)]_vars

\* a wrapped call made just after the 120 s of an unsettled earlier call
\* with the same key has started its own execution
C11_Witness ==
  /\ now = PENDING_METHOD_CALL_TTL + 1
  /\ lastCall.layer = "method" /\ lastCall.fresh
  /\ pendingMethodCalls[lastCall.key].promise = lastCall.promise
  /\ pendingMethodCalls[lastCall.key].timestamp = now
  /\ \E p \in PromiseIds :
       /\ p < lastCall.promise
       /\ promises[p].layer = "method"
       /\ promises[p].key = lastCall.key
       /\ promises[p].state = "pending"

(***************************************************************************)
(* The missing-scenario branch (SpecRetry)                                 *)
(***************************************************************************)
\* the latest failed attempt of p is a failure classified NotFound of a
\* request to the scenario route
NotFoundOnScenarioRoute(p) ==
  /\ promises[p].error.type = NOT_FOUND
  /\ promises[p].error.status = 404
  /\ IncludesScenarioRoute(promises[p].url)

\* C12: a failure classified NotFound (404) of a request to
\* '/webapp-backend/scenario' makes makeAuthenticatedRequest resolve with
\* null at that attempt: no further attempt is made, whatever the retry
\* policy, and nothing is thrown.
C12_MissingScenarioIsNull ==
  \A p \in RawPromises :
    NotFoundOnScenarioRoute(p)
      => /\ promises[p].state = "resolved"
         /\ promises[p].value = "null"
         /\ promises[p].phase = "done"
         /\ promises[p].attempts = promises[p].retryAttempt + 1

\* under a policy that lists 404 as retryable, a request to the scenario
\* route has failed with 503, was retried, got a 404 with an ordinary body and
\* resolved with null at that second attempt
C12_Witness ==
  \E p \in Policied :
    /\ NotFoundOnScenarioRoute(p)
    /\ promises[p].error.data # INVALID_ROUTE
    /\ 404 \in CodesOf(p)
    /\ promises[p].firstStatus = 503
    /\ promises[p].attempts = 2
    /\ promises[p].state = "resolved"
    /\ promises[p].value = "null"

\* C13: a request whose last attempt failed is rejected with a classified
\* error, except for a NotFound on the scenario route: the call resolves with
\* null for no other failure, in particular for no 404 of another route.
C13_OtherFailuresRejected ==
  \A p \in RawPromises :
    /\ (promises[p].state = "resolved" /\ promises[p].value = "null")
         => NotFoundOnScenarioRoute(p)
    /\ promises[p].state = "rejected" => promises[p].error.type \in Kinds

\* the part of C13 about the calls that are rejected
C13_RejectedAreClassified ==
  \A p \in RawPromises :
    promises[p].state = "rejected" => promises[p].error.type \in Kinds

(***************************************************************************)
(* The file a save leaves behind (SpecPersist)                             *)
(***************************************************************************)
\* the in-memory entries whose expiresAt the clock has not passed
UnexpiredEntries ==
  [k \in CacheKeys |->
     IF cache[k].present /\ ~(now > cache[k].expiresAt) THEN cache[k] ELSE NoEntry]

\* saveToDisk(true) has just returned: the file holds exactly the unexpired
\* entries, and does not exist when the store is empty
SyncSaved ==
  (lastGet.op = "saveToDisk(true)" /\ lastGet.result = "ok")
    => file = (IF Size(cache) = 0 THEN AbsentFile ELSE JsonFile(UnexpiredEntries))

\* saveToDisk() has just reached its await: the operation in flight writes
\* exactly the unexpired entries, or deletes the file of an empty store
AsyncSaveStarted ==
  lastGet.op = "saveToDisk()"
    => IF Size(cache) = 0
       THEN FileExists(file) => [kind |-> "unlink", payload |-> EmptyMap] \in io
       ELSE [kind |-> "write", payload |-> UnexpiredEntries] \in io

\* an operation in flight is carried out: the file is what it wrote, or gone
AsyncSaveCompleted ==
  \A op \in io :
    (io' = io \ {op} /\ lastGet'.result = "ok")
      => file' = (IF op.kind = "unlink" THEN AbsentFile ELSE JsonFile(op.payload))

\* C14: when saveToDisk, in either mode, completes without an I/O error the
\* file holds exactly the in-memory entries whose expiresAt had not passed at
\* the time of the save, and when the store is empty the file does not exist
\* afterwards.  (A store that holds only expired entries is not empty: its
\* file is written, with no entry in it.)
C14_SavedFile ==
  /\ [](SyncSaved /\ AsyncSaveStarted)
  /\ [][AsyncSaveCompleted]_vars

\* a synchronous save of a store with one live and one expired entry has
\* written the live entry only
C14_Witness ==
  /\ lastGet.op = "saveToDisk(true)"
  /\ file.state = "json"
  /\ \E k \in CacheKeys :
       cache[k].present /\ now > cache[k].expiresAt /\ ~file.entries[k].present
  /\ \E k \in CacheKeys : file.entries[k].present /\ file.entries[k] = cache[k]

\* a save of the empty store has deleted the file an earlier save wrote
C14_WitnessDeleted ==
  /\ lastGet.op = "saveToDisk(true)"
  /\ Size(cache) = 0
  /\ setCalls > 0
  /\ file = AbsentFile


\* ---------------------------------------------------------------------------
\* C15: file operations that fail

LoadLabels == {"loadFromDisk()", "loadFromDisk() settled"}

\* C15 as stated: no call of the store ends in a throw or a rejected promise
\* because a file operation failed, and after loadFromDisk met a missing or
\* unparsable file the in-memory store is empty.
C15_Original ==
  /\ lastGet.result # "thrown"
  /\ (lastGet.op \in LoadLabels /\ lastGet.result \in {"missing", "caught"})
       => cache = EmptyMap

\* a loadFromDisk that finds no file returns with the store as it was
MissingFileKeepsStore ==
  (lastGet'.op = "loadFromDisk()" /\ lastGet'.result = "missing") => cache' = cache

\* C15 amended: no call of the store ends in a throw or a rejected promise
\* because a file operation failed; after a loadFromDisk whose read or parse
\* failed the in-memory store is empty; a loadFromDisk that finds no file
\* leaves the in-memory store as it was, which is empty when the constructor
\* makes the call.
C15_FailuresAreCaught ==
  /\ [](lastGet.result # "thrown")
  /\ []((lastGet.op = "loadFromDisk() settled" /\ lastGet.result = "caught")
          => cache = EmptyMap)
  /\ [][MissingFileKeepsStore]_vars

\* a reload that found no file returned and the store still holds an entry
C15_Witness ==
  /\ lastGet.op = "loadFromDisk()"
  /\ lastGet.result = "missing"
  /\ cache # EmptyMap

\* a write failed and the call was settled without a throw
C15_WitnessWrite ==
  /\ lastGet.op \in {"saveToDisk(true)", "saveToDisk() settled"}
  /\ lastGet.result = "caught"
  /\ cache # EmptyMap


\* ---------------------------------------------------------------------------
\* C16: in every reachable state every in-memory entry expires after the
\* time it was created: expiresAt > timestamp, whatever ttl was passed to set
\* and whatever entry loadFromDisk took over from the file.
C16_ExpiresAfterCreation ==
  \A k \in CacheKeys : cache[k].present => cache[k].expiresAt > cache[k].timestamp


\* ---------------------------------------------------------------------------
\* C17: while caching is disabled, get(k) returns a miss and has(k) returns
\* false for every key k, and set(k, v, ttl) leaves the in-memory store as it
\* was: no entry is inserted or replaced.
C17_DisabledStore ==
  [][~enabled =>
       /\ (lastGet'.op = "get" /\ lastGet' # lastGet) => lastGet'.result = NULL
       /\ (lastGet'.op = "has" /\ lastGet' # lastGet) => lastGet'.result = "false"
       /\ (setCalls' # setCalls) => cache' = cache]_vars

\* caching is disabled, the store holds a live entry for k (loaded from the
\* file after the store was disabled), and get(k) returned a miss
C17_Witness ==
  /\ ~enabled
  /\ lastGet.op = "get"
  /\ lastGet.result = NULL
  /\ cache[lastGet.key].present
  /\ ~GetExpired(cache[lastGet.key], now)


\* ---------------------------------------------------------------------------
\* C18: cached endpoint calls

\* an endpoint method is called for cache key k
EndpointCalled(k) ==
  /\ lastGet'.key = k
  /\ lastGet'.op \in {"endpoint hit", "endpoint awaits"}
  /\ (lastGet' # lastGet \/ endpoint' # endpoint)

\* the result of a call that succeeded is stored under k
ResultIsStored ==
  \A k \in CacheKeys :
    (enabled /\ lastGet'.op = "endpoint returned" /\ lastGet'.key = k
       /\ endpoint' # endpoint)
      => /\ cache'[k].present
         /\ cache'[k].data = lastGet'.result
         /\ cache'[k].expiresAt = now + TRENDING_SCENARIOS

\* the store holds under k, unexpired, the result an earlier call stored
HoldsResult(k) ==
  /\ enabled
  /\ cache[k].present
  /\ cache[k] = written[k]
  /\ ~GetExpired(cache[k], now)

\* C18: with caching enabled, once an endpoint call for cache key k has
\* succeeded its result is stored under k, and every later call for k made
\* before the entry's TTL lapses returns the stored result without a
\* transport call, whatever the value of the result was.
C18_CachedCallsSkipTransport ==
  [][/\ ResultIsStored
     /\ \A k \in CacheKeys :
          (HoldsResult(k) /\ EndpointCalled(k))
            => /\ endpoint'.sent = endpoint.sent
               /\ lastGet'.op = "endpoint hit"
               /\ lastGet'.result = cache[k].data]_vars

\* the same for results that are truthy, which the code keeps
C18_TruthyResultsSkipTransport ==
  [][/\ ResultIsStored
     /\ \A k \in CacheKeys :
          (HoldsResult(k) /\ Truthy(cache[k].data) /\ EndpointCalled(k))
            => /\ endpoint'.sent = endpoint.sent
               /\ lastGet'.op = "endpoint hit"
               /\ lastGet'.result = cache[k].data]_vars


\* ---------------------------------------------------------------------------
\* C19: the store has a handler for the normal exit of the process and one
\* for SIGINT; each runs saveToDisk(true), so the file has been written (the
\* unexpired entries) or deleted (empty store) when the handler returns and
\* the process terminates, unless the file operation failed; and the process
\* has ended after the SIGINT handler.
C19_ExitHandlersSave ==
  (lastGet.op \in {"exit", "SIGINT"})
    => /\ lastGet.result \in {"ok", "caught"}
       /\ process = "exited"
       /\ lastGet.result = "ok"
            => file = (IF Size(cache) = 0 THEN AbsentFile ELSE JsonFile(UnexpiredEntries))

\* SIGINT ended the process and the file holds the entry set before it,
\* which the file did not hold when the store was constructed
C19_Witness ==
  /\ lastGet.op = "SIGINT"
  /\ lastGet.result = "ok"
  /\ process = "exited"
  /\ \E k \in CacheKeys : cache[k].present /\ cache[k].data \in CacheValues
                          /\ file = JsonFile(UnexpiredEntries)
                          /\ file.entries[k] = cache[k]

\* ---------------------------------------------------------------------------
\* C20: the autosave timer

\* a tick of the autosave timer
AutoSaveTicked ==
  /\ lastGet'.op = "saveToDisk()"
  /\ lastGet'.result = "tick"
  /\ (lastGet' # lastGet \/ cache' # cache \/ io' # io)

\* C20: for a store that has not been disposed an autosave timer is active
\* exactly when the autoSaveInterval configured last (constructor or
\* updateConfig) is greater than 0; at most one timer is active at any time;
\* each tick runs purgeExpired and then saveToDisk(); and with interval 0
\* no tick happens, so that the file is written only by exit, SIGINT,
\* dispose, clear or a call of saveToDisk.
C20_AutoSaveTimer ==
  /\ [](~disposed => (timers > 0 <=> interval > 0))
  /\ [](timers <= 1)
  /\ [][AutoSaveTicked =>
          /\ interval > 0
          /\ cache' = purgeExpired(cache, now)
          /\ io' = SaveAsync(purgeExpired(cache, now), file, now, io)]_vars
  /\ [][(interval = 0 /\ ~disposed /\ (file' # file \/ io' # io))
          => lastGet'.op \in {"exit", "SIGINT", "dispose()", "saveToDisk()",
                              "saveToDisk(true)", "saveToDisk() settled"}
             /\ lastGet'.result # "tick"]_vars

\* updateConfig has replaced the timer of a store, and a tick of its single
\* timer has purged the store and started the write of its entries
C20_Witness ==
  /\ timers = 1
  /\ interval > 0
  /\ ~disposed
  /\ lastGet.result = "tick"
  /\ Size(cache) > 0
  /\ [kind |-> "write", payload |-> UnexpiredEntries] \in io

\* a store without periodic saving whose file was written at exit
C20_WitnessNoTimer ==
  /\ interval = 0
  /\ timers = 0
  /\ ~disposed
  /\ process = "exited"
  /\ file.state = "json"
  /\ \E k \in CacheKeys : file.entries[k].data \in CacheValues


\* ---------------------------------------------------------------------------
\* C21: cancellation of the batching helpers

\* C21: batchApiCalls, getScenarioScoresForMultipleUsers and the page loop
\* of getAllScenarioScores start no call once the cancel signal is aborted
\* when the loop tests it, and a call that was started is never taken back:
\* it stays in flight, also after the abort and after the run has ended,
\* until it settles.
C21_NoStartAfterAbort ==
  [][/\ (batch'.started # batch.started)
          => (~(batch.hasSignal /\ batch.aborted) /\ ~(batch'.hasSignal /\ batch'.aborted))
     /\ batch.started \subseteq batch'.started
     /\ batch.settled \subseteq batch'.settled
     /\ batch'.settled \subseteq batch'.started]_vars

\* the signal was aborted after the first batch was started: every call of
\* that batch has settled, and the run ended at the next batch boundary with
\* the remaining calls never started
C21_Witness ==
  /\ batch.fn = "batchApiCalls"
  /\ batch.aborted
  /\ batch.phase = "resolved"
  /\ batch.started # {}
  /\ batch.started = batch.settled
  /\ batch.started # 0..(batch.n - 1)


\* ---------------------------------------------------------------------------
\* C22: the backoff delay

DelayComputed == delayCall.result # Undefined
UsedPolicy == DelayPolicy(delayCall.policy)
Uncapped == exponentialDelay(delayCall.attempt, UsedPolicy)

\* C22 as stated: for every attempt N >= 0 and every policy the delay is at
\* most maxDelayMs and at least initialDelayMs * backoffFactor^N * 0.8.
C22_Original ==
  DelayComputed
    => /\ delayCall.result <= UsedPolicy.maxDelayMs * 1000
       /\ delayCall.result >= Uncapped * 800

\* C22 amended: for every attempt N >= 0 and every policy the delay is at
\* most maxDelayMs, and at least the smaller of maxDelayMs and
\* initialDelayMs * backoffFactor^N * 0.8; it is below
\* initialDelayMs * backoffFactor^N * 1.2, and equals
\* initialDelayMs * backoffFactor^N * (0.8 + 0.4 * random) whenever that is
\* at most maxDelayMs.
C22_DelayBounds ==
  DelayComputed
    => /\ delayCall.result <= UsedPolicy.maxDelayMs * 1000
       /\ delayCall.result >= Min(Uncapped * 800, UsedPolicy.maxDelayMs * 1000)
       /\ delayCall.result < Uncapped * 1200
       /\ Uncapped * (800 + 4 * delayCall.random) <= UsedPolicy.maxDelayMs * 1000
            => delayCall.result = Uncapped * (800 + 4 * delayCall.random)

\* the default policy at attempt 6: 300 * 2^6 * 0.8 = 15360 ms is above
\* maxDelayMs, and the delay is maxDelayMs
C22_Witness ==
  /\ DelayComputed
  /\ delayCall.policy = "default"
  /\ Uncapped * 800 > UsedPolicy.maxDelayMs * 1000
  /\ delayCall.result = UsedPolicy.maxDelayMs * 1000


\* ---------------------------------------------------------------------------
\* C23: the cleanup at settlement

\* promise p settles in this step
SettlesNow(p) == promises[p].state = "pending" /\ Settled(p)'

\* the record under p's key after p settled: gone if it held p, untouched if
\* it holds another promise or nothing
OwnRecordOnly(map, mapAfter, p) ==
  LET key == promises[p].key IN
  /\ mapAfter[key] = (IF map[key].promise = p THEN NoRecord ELSE map[key])
  /\ \A k \in DOMAIN map : k # key => mapAfter[k] = map[k]

\* C23: when a deduplicated call settles, by resolving or by rejecting, its
\* cleanup removes the record under its key only if the record holds this
\* call's own promise; a record registered later under the same key (after
\* the earlier one expired and was replaced) is left in place, and no other
\* record is touched.
C23_CleanupOwnRecordOnly ==
  [][\A p \in PromiseIds :
       SettlesNow(p) =>
         /\ promises[p].layer = "raw"
              => OwnRecordOnly(pendingRequests, pendingRequests', p)
         /\ promises[p].layer = "method"
              => OwnRecordOnly(pendingMethodCalls, pendingMethodCalls', p)]_vars

\* an earlier wrapped call has rejected and a later call of the same key,
\* registered after the earlier record had expired, is pending: the record
\* of the later call is in place
C23_Witness ==
  \E p, q \in PromiseIds :
    /\ p < q
    /\ promises[p].layer = "method" /\ promises[q].layer = "method"
    /\ promises[p].key = promises[q].key
    /\ promises[p].state = "rejected"
    /\ promises[q].state = "pending"
    /\ pendingMethodCalls[promises[q].key].promise = q
    /\ pendingMethodCalls[promises[q].key].timestamp > PENDING_METHOD_CALL_TTL

\* the same in the raw layer, the earlier call having resolved
C23_WitnessRaw ==
  \E p, q \in PromiseIds :
    /\ p < q
    /\ promises[p].layer = "raw" /\ promises[q].layer = "raw"
    /\ promises[p].key = promises[q].key
    /\ promises[p].state = "resolved"
    /\ promises[q].state = "pending"
    /\ pendingRequests[promises[q].key].promise = q
    /\ pendingRequests[promises[q].key].timestamp > PENDING_REQUEST_TTL


\* ---------------------------------------------------------------------------
\* C24: the two layers side by side

\* the decision of the raw layer (sweep, then lookup) on a map, at time t
RawDecision(map, key, t) == RequestIsShared(cleanupPendingRequests(map, t), key)

\* the decision of the wrapper layer on the same map at the same time
MethodDecision(map, key, t) == MethodCallIsShared(map, key, t)

\* C24: the raw layer and the wrapper layer take the same share-or-execute
\* decision on every record at every clock reading relative to the record's
\* expiresAt, the instant now = expiresAt included: whatever records a map
\* holds, the lookup of either layer answers alike.
C24_SameDecision ==
  /\ \A k \in RequestKeys :
       RawDecision(pendingRequests, k, now) = MethodDecision(pendingRequests, k, now)
  /\ \A k \in MethodKeys :
       RawDecision(pendingMethodCalls, k, now) = MethodDecision(pendingMethodCalls, k, now)

\* the two decisions agree at every instant other than expiresAt
C24_SameDecisionOffTheInstant ==
  /\ \A k \in RequestKeys :
       now # pendingRequests[k].expiresAt =>
         RawDecision(pendingRequests, k, now) = MethodDecision(pendingRequests, k, now)
  /\ \A k \in MethodKeys :
       now # pendingMethodCalls[k].expiresAt =>
         RawDecision(pendingMethodCalls, k, now) = MethodDecision(pendingMethodCalls, k, now)


\* ---------------------------------------------------------------------------
\* C25: no record stays forever

\* C25: every pending record is eventually removed from its map: by the
\* cleanup of its call when the call settles, and otherwise, when the call
\* never settles, by an expiry sweep after its TTL has lapsed
\* (cleanupPendingMethodCalls every minute; cleanupPendingRequests at every
\* deduplicated request and every minute for the created client).
C25_RecordsAreRemoved ==
  /\ \A k \in RequestKeys : \A p \in PromiseIds :
       (pendingRequests[k].promise = p) ~> (pendingRequests[k].promise # p)
  /\ \A k \in MethodKeys : \A p \in PromiseIds :
       (pendingMethodCalls[k].promise = p) ~> (pendingMethodCalls[k].promise # p)

\* a wrapped call is still pending after its TTL and its record is gone:
\* the sweep removed it
C25_Witness ==
  \E p \in PromiseIds :
    /\ promises[p].layer = "method"
    /\ promises[p].state = "pending"
    /\ pendingMethodCalls[promises[p].key].promise = 0
    /\ now > PENDING_METHOD_CALL_TTL


\* ---------------------------------------------------------------------------
\* C26: in every reachable state in which caching is disabled the in-memory
\* store holds no entry, also when caching is switched off right after the
\* construction over an existing file, whatever the interleaving of the
\* switch and the initial loadFromDisk.
C26_DisabledStoreIsEmpty == ~enabled => Size(cache) = 0

\* C27: once set(k, v) has returned, get(k) returns v until the entry
\* expires or k is set, deleted or cleared again, whether a loadFromDisk
\* completes before or after the set and whether the file holds an older
\* entry for k, is missing or does not parse.  (written[k] is the entry of
\* the latest set of k not followed by a delete or clear.)
C27_SetSurvivesLoad ==
  \A k \in CacheKeys :
    (written[k].present /\ ~GetExpired(written[k], now)) => cache[k] = written[k]


\* ---------------------------------------------------------------------------
\* C28: a call through the wrapper of f only ever gets a promise that an
\* invocation of f itself returned, never the promise of another wrapped
\* function g, also when f and g have the same name and the arguments are
\* equal (no keyGenerator).
C28_OwnFunctionOnly ==
  lastCall.layer = "method" => promises[lastCall.promise].client = lastCall.fn


\* ---------------------------------------------------------------------------
\* C29: batchApiCalls settles (resolves or rejects) after finitely many
\* steps for every finite list of calls whose promises all settle, for every
\* value of the concurrency option, with or without a cancel signal.
C29_BatchSettles ==
  (batch.fn = "batchApiCalls") ~> (batch.phase \in {"resolved", "rejected"})

\* the same for the runs whose concurrency is at least 1
C29_BatchSettlesWhenConcurrencyPositive ==
  (batch.fn = "batchApiCalls" /\ batch.concurrency >= 1)
    ~> (batch.phase \in {"resolved", "rejected"})


\* ---------------------------------------------------------------------------
\* C30: in every reachable state of a store the cache file path is the
\* configured file name inside the configured cache directory, also after
\* updateConfig changed cacheDir, with or without a new cacheFile: every
\* later load and save uses a file inside the new directory.
C30_FileInsideCacheDir ==
  paths.cacheFile = [dir |-> paths.cacheDir, name |-> paths.name]

\* the file name of the path is the configured file name; only the
\* directory of the path falls behind
C30_FileNameIsConfigured == paths.cacheFile.name = paths.name

====
